---- MODULE Spec2Model ----
(***************************************************************************)
(* Model of the OpenRouter model-registry setup pipeline                   *)
(* (scripts/setup): the relational store with its constraints, the ORM     *)
(* session (pending objects, flush, rollback, commit), the insert path     *)
(* bulk_insert_models, the update passes, the freshness gate should_sync   *)
(* and the pipeline main_async.                                            *)
(***************************************************************************)
EXTENDS Integers, Sequences, FiniteSets, TLC

VARIABLES
    db,                 \* committed contents of the database, one set of rows per table
    session,            \* the open AsyncSession: [tx |-> rows visible in its transaction, pending |-> added, unflushed objects]
    pc,                 \* position of the program
    frame,              \* who called the running function: "main_async" or "direct"
    models,             \* the candidate list handed to the reconciler (models_with_endpoints)
    zdr_lookup,         \* dict (provider_name, model_name, tag) -> ZDREndpoint pricing
    existing,           \* bulk_insert_models: keys loaded at the start of the batch
    new_models,         \* bulk_insert_models: candidates whose key is not in existing
    i,                  \* bulk_insert_models: index of the next candidate of new_models
    inserted_count,     \* bulk_insert_models: local counter
    skipped,            \* bulk_insert_models: local counter
    failed,             \* indices of new_models for which "Failed to insert model" was logged
    result,             \* outcome of the last function call
    repeat,             \* the running call repeats the previous bulk_insert_models call, same arguments
    now,                \* wall clock, in hours
    force_refresh,      \* main_async argument
    should_sync_models, \* main_async local
    summary,            \* main_async locals updated_* / inserted / skipped (None until assigned)
    ep_in,              \* pricing resolver: the endpoint candidate
    zdr_in,             \* pricing resolver: the ZDR lookup
    endpoint_pricing,   \* pricing resolver: the ModelEndpointPricing row built
    listing,            \* fetch_openrouter_models: the "data" list of the HTTP response
    raw_models,         \* main_async local: the parsed OpenRouterModel list
    gather,             \* fetch_all_endpoints_parallel: the tasks of asyncio.gather and the order of their completion
    config              \* the parameter lists of utils/validation.py the process was built with

vars == <<db, session, pc, frame, models, zdr_lookup, existing, new_models, i,
          inserted_count, skipped, failed, result, repeat, now, force_refresh,
          should_sync_models, summary, ep_in, zdr_in, endpoint_pricing,
          listing, raw_models, gather, config>>

(***************************************************************************)
(* Bounds                                                                  *)
(***************************************************************************)
MaxBatch == 3       \* longest candidate list handed to the reconciler
MaxClock == 60      \* the clock stops advancing after this many hours
ClockStep == 12     \* hours that pass in one step of the clock
MaxListing == 2     \* longest raw listing the models API answers with

\* should_sync's default max_age_hours
MaxAgeHours == 24

(***************************************************************************)
(* Values                                                                  *)
(***************************************************************************)
None == -1              \* Python None / SQL NULL in an integer position
NoneStr == "<None>"     \* Python None / SQL NULL in a string position

Range(s) == {s[k] : k \in DOMAIN s}

\* the list literals of utils/validation.py
SupportedParametersList ==
    <<"temperature", "top_p", "top_k", "min_p", "top_a", "frequency_penalty",
      "presence_penalty", "repetition_penalty", "top_logprobs", "seed",
      "max_tokens", "max_output_tokens", "max_completion_tokens",
      "response_format", "structured_outputs", "stop", "stop_sequences",
      "tools", "tool_choice", "parallel_tool_calls", "n", "candidate_count",
      "store", "logprobs", "logit_bias", "web_search_options",
      "include_reasoning", "reasoning">>

DefaultParametersList == <<"temperature", "top_p", "frequency_penalty">>

\* "param in SUPPORTED_PARAMETERS", "param in DEFAULT_PARAMETERS" test membership
SUPPORTED_PARAMETERS == Range(SupportedParametersList)

DEFAULT_PARAMETERS == Range(DefaultParametersList)

\* the lists as the source defines them
SourceConfig == [supported |-> SupportedParametersList, defaults |-> DefaultParametersList]

\* the lists of a build with a configuration bug: a default parameter that is
\* not a supported parameter, a repeated supported parameter, a repeated
\* default parameter
Configs ==
    {SourceConfig,
     [SourceConfig EXCEPT !.defaults = Append(@, "max_new_tokens")],
     [SourceConfig EXCEPT !.supported = Append(@, "temperature")],
     [SourceConfig EXCEPT !.defaults = Append(@, "top_p")]}

\* a check that looks for duplicates only
validate_parameter_constantsNoSubset(supported, defaults) ==
    /\ Len(supported) = Cardinality(Range(supported))
    /\ Len(defaults) = Cardinality(Range(defaults))

\* validate_parameter_constants returns (TRUE) or raises ValueError (FALSE)
validate_parameter_constants(supported, defaults) ==
    /\ Len(supported) = Cardinality(Range(supported))
    /\ Len(defaults) = Cardinality(Range(defaults))
    /\ Range(defaults) \ Range(supported) = {}

is_valid_supported_parameter(param) == param \in SUPPORTED_PARAMETERS

is_valid_default_parameter(param) == param \in DEFAULT_PARAMETERS

\* a validator that lets every name through
validate_supported_parametersKeepAll(v) == v

\* the field validator of supported_parameters (models/openrouter.py): the
\* names that are not valid are filtered out, the order is kept
validate_supported_parameters(v) == SelectSeq(v, is_valid_supported_parameter)

\* a validator that lets every key through
validate_default_parametersKeepAll(v) == v

\* the field validator of default_parameters (models/openrouter.py): None stays
\* None (the empty map here), the keys that are not valid are removed
validate_default_parameters(v) ==
    [k \in {x \in DOMAIN v : is_valid_default_parameter(x)} |-> v[k]]

\* dict.get(k, default)
Get(d, k, default) == IF k \in DOMAIN d THEN d[k] ELSE default

\* str(bool).lower()
BoolStr(b) == IF b THEN "true" ELSE "false"

(***************************************************************************)
(* The relational schema (models/database.py)                              *)
(***************************************************************************)
Tables == {"models", "pricing", "architecture", "modalities", "top_provider",
           "endpoints", "endpoint_pricing", "supported_parameters",
           "default_parameters", "sync_metadata"}

EmptyStore == [t \in Tables |-> {}]

\* the columns of each UniqueConstraint / unique=True, as a tuple of the row
UKey(t, r) ==
    CASE t = "models" -> <<r.author, r.model_name>>
      [] t = "pricing" -> <<r.model_id>>
      [] t = "architecture" -> <<r.model_id>>
      [] t = "modalities" -> <<r.architecture_id, r.modality_type, r.modality_value>>
      [] t = "top_provider" -> <<r.model_id>>
      [] t = "endpoints" -> <<r.model_id, r.name, r.provider_name, r.tag>>
      [] t = "endpoint_pricing" -> <<r.endpoint_id>>
      [] t = "supported_parameters" -> <<r.model_id, r.parameter_name>>
      [] t = "default_parameters" -> <<r.model_id>>
      [] t = "sync_metadata" -> <<r.sync_type>>

\* the integer columns declared nullable=False that the code fills itself
NotNullRef(t) ==
    CASE t \in {"pricing", "architecture", "top_provider", "endpoints",
                "supported_parameters", "default_parameters"} -> {"model_id"}
      [] t = "modalities" -> {"architecture_id"}
      [] t = "endpoint_pricing" -> {"endpoint_id"}
      [] OTHER -> {}

\* the schema without the UniqueConstraint on llm_models (author, model_name)
UniqueViolationNoModelKey(rows, t, r) ==
    t # "models" /\ \E o \in rows : UKey(t, o) = UKey(t, r)

UniqueViolation(rows, t, r) == \E o \in rows : UKey(t, o) = UKey(t, r)

NotNullViolation(t, r) == \E c \in NotNullRef(t) : r[c] = None

\* the INSERT of row r into table t raises IntegrityError
Violates(rows, t, r) == NotNullViolation(t, r) \/ UniqueViolation(rows, t, r)

\* autoincrement primary key
NextId(rows) ==
    IF rows = {} THEN 1
    ELSE (CHOOSE n \in {r.id : r \in rows} : \A r \in rows : r.id <= n) + 1

(***************************************************************************)
(* The ORM session: add, flush, rollback, commit                           *)
(***************************************************************************)
NewSession(store) == [tx |-> store, pending |-> <<>>, ok |-> TRUE]

\* session.add(obj): the object is pending until the next flush
Add(s, t, r) ==
    IF s.ok THEN [s EXCEPT !.pending = Append(@, <<t, r>>)] ELSE s

RECURSIVE AddAll(_, _, _)
AddAll(s, t, rs) ==
    IF rs = <<>> THEN s ELSE AddAll(Add(s, t, rs[1]), t, Tail(rs))

RECURSIVE FlushRows(_, _)
FlushRows(tx, pend) ==
    IF pend = <<>> THEN [ok |-> TRUE, tx |-> tx]
    ELSE LET t == pend[1][1]
             r == pend[1][2]
         IN  IF Violates(tx[t], t, r) THEN [ok |-> FALSE, tx |-> tx]
             ELSE FlushRows([tx EXCEPT ![t] = @ \cup {[id |-> NextId(tx[t])] @@ r}],
                            Tail(pend))

\* session.flush() (also the autoflush before a query): INSERT every pending
\* object; a constraint violation raises and leaves the session failed
Flush(s) ==
    IF ~s.ok THEN s
    ELSE LET f == FlushRows(s.tx, s.pending)
         IN  IF f.ok THEN [tx |-> f.tx, pending |-> <<>>, ok |-> TRUE]
             ELSE [s EXCEPT !.ok = FALSE]

\* a rollback that discards the pending objects only: the rows flushed
\* before the failing candidate stay in the transaction
RollbackPendingOnly(store) == [tx |-> session.tx, pending |-> <<>>, ok |-> TRUE]

\* session.rollback(): everything flushed since the last commit and every
\* pending object is discarded
Rollback(store) == NewSession(store)

(***************************************************************************)
(* Candidate records (models/openrouter.py, models/zdr.py)                 *)
(***************************************************************************)
\* an Endpoint candidate; its pricing block is a dict
EpGpt ==
    [name |-> "OpenAI | gpt", model_name |-> "gpt", context_length |-> 8,
     pricing |-> [prompt |-> "1", completion |-> "2"],
     provider_name |-> "OpenAI", tag |-> "openai", quantization |-> NoneStr,
     max_completion_tokens |-> None, max_prompt_tokens |-> None,
     status |-> 0, supports_implicit_caching |-> FALSE]

EpGemini ==
    [name |-> "Google | gemini", model_name |-> "gemini", context_length |-> 8,
     pricing |-> [prompt |-> "1"],
     provider_name |-> "Google", tag |-> "google", quantization |-> "fp8",
     max_completion_tokens |-> 4, max_prompt_tokens |-> None,
     status |-> 0, supports_implicit_caching |-> TRUE]

\* an OpenRouterModelWithEndpoints without providers; the raw record named a
\* parameter and a default-parameter key that the validators do not know
Gpt ==
    [author |-> "openai", model_name |-> "gpt", name |-> "GPT",
     description |-> "d", context_length |-> 8,
     pricing |-> [prompt |-> "1", completion |-> "2", request |-> "0",
                  image |-> "0", web_search |-> "0", internal_reasoning |-> "0"],
     architecture |-> [modality |-> "text->text", input_modalities |-> <<"text">>,
                       output_modalities |-> <<"text">>, tokenizer |-> "GPT",
                       instruct_type |-> NoneStr],
     top_provider |-> [context_length |-> 8, max_completion_tokens |-> None,
                       is_moderated |-> TRUE],
     supported_parameters |->
         validate_supported_parameters(<<"temperature", "bogus", "top_p">>),
     default_parameters |->
         validate_default_parameters([temperature |-> 7, bogus |-> 1]),
     providers |-> <<>>]

\* the same key as Gpt, a repeated supported parameter, no providers
GptDup == [Gpt EXCEPT !.supported_parameters = <<"temperature", "temperature">>,
                      !.default_parameters = <<>>]

Gemini ==
    [Gpt EXCEPT !.author = "google", !.model_name = "gemini", !.name = "Gemini",
                !.supported_parameters = <<"temperature">>,
                !.default_parameters = <<>>]

\* the same key as Gemini, one more supported parameter, one provider endpoint
GeminiEp ==
    [Gemini EXCEPT !.supported_parameters = <<"temperature", "top_p">>,
                   !.providers = <<EpGemini>>]

Candidates == {Gpt, GptDup, Gemini, GeminiEp}

\* GeminiEp as the endpoints API answers when it lists one provider endpoint
\* twice: two entries with the same (name, provider_name, tag)
GeminiEpTwice == [GeminiEp EXCEPT !.providers = <<EpGemini, EpGemini>>]

RECURSIVE SeqsUpTo(_, _)
SeqsUpTo(S, n) ==
    IF n = 0 THEN {<<>>}
    ELSE LET shorter == SeqsUpTo(S, n - 1)
         IN  shorter \cup {Append(q, x) : q \in {r \in shorter : Len(r) = n - 1}, x \in S}

\* the candidate lists the fetch layer can hand over
Batches == SeqsUpTo(Candidates, MaxBatch) \ {<<>>}

\* the candidate lists of the direct calls: those, and lists with GeminiEpTwice
DirectBatches == Batches \cup {<<GeminiEpTwice>>, <<Gpt, GeminiEpTwice>>}

\* ZDREndpointPricing(**raw): every absent field takes the default "0"
ZDRPricingFields ==
    {"prompt_cost", "completion_cost", "request_cost", "image_cost",
     "image_output_cost", "audio_cost", "input_audio_cache_cost",
     "input_cache_read_cost", "input_cache_write_cost", "discount"}

ZDREndpointPricing(raw) == [f \in ZDRPricingFields |-> Get(raw, f, "0")]

ZdrKey(ep) == <<ep.provider_name, ep.model_name, ep.tag>>

\* the lookups fetch_zdr_endpoints can return: none, or one entry for EpGemini
ZdrLookups ==
    {<<>>, [k \in {ZdrKey(EpGemini)} |-> ZDREndpointPricing([prompt_cost |-> "0.5"])]}

Key(m) == <<m.author, m.model_name>>

(***************************************************************************)
(* Insert path: inserters/bulk_insert.py                                   *)
(***************************************************************************)
\* get_existing_models_from_db
get_existing_models_from_db(store) == {<<r.author, r.model_name>> : r \in store.models}

\* the filter that lets every candidate through
NewModelsAll(ms, ex) == ms

\* new_models = [m for m in models if (m.author, m.model_name) not in existing]
NewModels(ms, ex) == SelectSeq(ms, LAMBDA m : Key(m) \notin ex)

LLMModelRow(m) ==
    [author |-> m.author, model_name |-> m.model_name, display_name |-> m.name,
     description |-> m.description, context_length |-> m.context_length]

ModelPricingRow(model_id, m) ==
    [model_id |-> model_id, prompt_cost |-> m.pricing.prompt,
     completion_cost |-> m.pricing.completion, request_cost |-> m.pricing.request,
     image_cost |-> m.pricing.image, web_search_cost |-> m.pricing.web_search,
     internal_reasoning_cost |-> m.pricing.internal_reasoning]

ModelArchitectureRow(model_id, m) ==
    [model_id |-> model_id, modality |-> m.architecture.modality,
     tokenizer |-> m.architecture.tokenizer,
     instruct_type |-> m.architecture.instruct_type]

ModalityRows(architecture_id, type, values) ==
    [k \in 1..Len(values) |->
        [architecture_id |-> architecture_id, modality_type |-> type,
         modality_value |-> values[k]]]

ModelTopProviderRow(model_id, m) ==
    [model_id |-> model_id, context_length |-> m.top_provider.context_length,
     max_completion_tokens |-> m.top_provider.max_completion_tokens,
     is_moderated |-> BoolStr(m.top_provider.is_moderated)]

SupportedParameterRows(model_id, params) ==
    [k \in 1..Len(params) |-> [model_id |-> model_id, parameter_name |-> params[k]]]

ModelDefaultParametersRow(model_id, m) ==
    [model_id |-> model_id, parameters |-> m.default_parameters]

\* ModelEndpoint(...) as constructed by the insert path: the constructor call
\* passes no model_id, so the attribute stays None
ModelEndpointRow(model_id, ep, is_zdr) ==
    [model_id |-> None, name |-> ep.name, endpoint_model_name |-> ep.model_name,
     context_length |-> ep.context_length, provider_name |-> ep.provider_name,
     tag |-> ep.tag, quantization |-> ep.quantization,
     max_completion_tokens |-> ep.max_completion_tokens,
     max_prompt_tokens |-> ep.max_prompt_tokens, status |-> ep.status,
     supports_implicit_caching |-> BoolStr(ep.supports_implicit_caching),
     is_zdr |-> is_zdr]

\* the row built by reading the endpoint's block under the column names
\* (prompt_cost, ...) instead of the block's own keys (prompt, ...)
ModelEndpointPricingRowCostKeys(endpoint_id, ep, zdr) ==
    [f \in ZDRPricingFields \cup {"endpoint_id"} |->
        IF f = "endpoint_id" THEN endpoint_id
        ELSE IF ZdrKey(ep) \in DOMAIN zdr THEN zdr[ZdrKey(ep)][f]
             ELSE Get(ep.pricing, f, "0")]

\* the ModelEndpointPricing built for a new endpoint: the ZDR entry's pricing
\* when the lookup has the endpoint's key, the endpoint's own block otherwise
ModelEndpointPricingRow(endpoint_id, ep, zdr) ==
    IF ZdrKey(ep) \in DOMAIN zdr
    THEN LET z == zdr[ZdrKey(ep)]
         IN  [endpoint_id |-> endpoint_id,
              prompt_cost |-> z.prompt_cost,
              completion_cost |-> z.completion_cost,
              request_cost |-> z.request_cost,
              image_cost |-> z.image_cost,
              image_output_cost |-> z.image_output_cost,
              audio_cost |-> z.audio_cost,
              input_audio_cache_cost |-> z.input_audio_cache_cost,
              input_cache_read_cost |-> z.input_cache_read_cost,
              input_cache_write_cost |-> z.input_cache_write_cost,
              discount |-> z.discount]
    ELSE [endpoint_id |-> endpoint_id,
          prompt_cost |-> Get(ep.pricing, "prompt", "0"),
          completion_cost |-> Get(ep.pricing, "completion", "0"),
          request_cost |-> Get(ep.pricing, "request", "0"),
          image_cost |-> Get(ep.pricing, "image", "0"),
          image_output_cost |-> "0",
          audio_cost |-> "0",
          input_audio_cache_cost |-> "0",
          input_cache_read_cost |-> "0",
          input_cache_write_cost |-> "0",
          discount |-> "0"]

\* step 8/9 of the loop body: the providers of one candidate
RECURSIVE InsertProviders(_, _, _, _)
InsertProviders(s, model_id, eps, zdr) ==
    IF eps = <<>> \/ ~s.ok THEN s
    ELSE LET ep == eps[1]
             q == Flush(s)      \* the SELECT autoflushes the pending objects
             existing_endpoint ==
                 \E e \in q.tx.endpoints :
                     /\ e.model_id = model_id /\ e.name = ep.name
                     /\ e.provider_name = ep.provider_name /\ e.tag = ep.tag
             is_zdr == BoolStr(ZdrKey(ep) \in DOMAIN zdr)
             endpoint_id == NextId(q.tx.endpoints)
             flushed == Flush(Add(q, "endpoints", ModelEndpointRow(model_id, ep, is_zdr)))
             created == Add(flushed, "endpoint_pricing",
                            ModelEndpointPricingRow(endpoint_id, ep, zdr))
         IN  IF ~q.ok THEN q
             ELSE IF existing_endpoint
                  THEN InsertProviders(q, model_id, Tail(eps), zdr)
                  ELSE InsertProviders(created, model_id, Tail(eps), zdr)

\* the try block with the model's id read as the next id after the flush
InsertSubgraphStaleId(s, m, zdr) ==
    LET s1 == Flush(Add(s, "models", LLMModelRow(m)))
        model_id == NextId(s1.tx.models)
        s2 == Add(s1, "pricing", ModelPricingRow(model_id, m))
        architecture_id == NextId(s1.tx.architecture)
        s3 == Flush(Add(s2, "architecture", ModelArchitectureRow(model_id, m)))
        s4 == AddAll(AddAll(s3, "modalities",
                            ModalityRows(architecture_id, "input",
                                         m.architecture.input_modalities)),
                     "modalities",
                     ModalityRows(architecture_id, "output",
                                  m.architecture.output_modalities))
        s5 == Add(s4, "top_provider", ModelTopProviderRow(model_id, m))
        s6 == AddAll(s5, "supported_parameters",
                     SupportedParameterRows(model_id, m.supported_parameters))
        s7 == IF DOMAIN m.default_parameters # {}
              THEN Add(s6, "default_parameters", ModelDefaultParametersRow(model_id, m))
              ELSE s6
    IN  InsertProviders(s7, model_id, m.providers, zdr)

\* the body of the try block for one candidate (steps 1 to 9); the result has
\* ok = FALSE when a statement of the block raised
InsertSubgraph(s, m, zdr) ==
    LET model_id == NextId(s.tx.models)
        s1 == Flush(Add(s, "models", LLMModelRow(m)))
        s2 == Add(s1, "pricing", ModelPricingRow(model_id, m))
        architecture_id == NextId(s1.tx.architecture)
        s3 == Flush(Add(s2, "architecture", ModelArchitectureRow(model_id, m)))
        s4 == AddAll(AddAll(s3, "modalities",
                            ModalityRows(architecture_id, "input",
                                         m.architecture.input_modalities)),
                     "modalities",
                     ModalityRows(architecture_id, "output",
                                  m.architecture.output_modalities))
        s5 == Add(s4, "top_provider", ModelTopProviderRow(model_id, m))
        s6 == AddAll(s5, "supported_parameters",
                     SupportedParameterRows(model_id, m.supported_parameters))
        s7 == IF DOMAIN m.default_parameters # {}
              THEN Add(s6, "default_parameters", ModelDefaultParametersRow(model_id, m))
              ELSE s6
    IN  InsertProviders(s7, model_id, m.providers, zdr)

(***************************************************************************)
(* Update path: updaters/*.py                                              *)
(* Every pass folds its loop body over the candidates; acc.s is the        *)
(* session, acc.n the pass's updated_count.                                *)
(***************************************************************************)
\* Python truthiness of an Optional[str] / of an int
Truthy(x) == x \notin {NoneStr, ""}
TruthyInt(x) == x \notin {None, 0}

\* a fill test that does not look at the stored value
EmptyStrAny(x) == TRUE

\* "not stored or stored == ''"
EmptyStr(x) == x \in {NoneStr, ""}

\* a fill test that takes a stored "0" for a price
EmptyCostNoZero(x) == x \in {NoneStr, ""}

\* "not stored or stored == '0'"
EmptyCost(x) == x \in {NoneStr, "", "0"}

\* select(LLMModel.id).where(author, model_name).scalar_one_or_none()
ModelIdOf(store, m) ==
    LET found == {r \in store.models : r.author = m.author /\ r.model_name = m.model_name}
    IN  IF found = {} THEN None ELSE (CHOOSE r \in found : TRUE).id

\* the row of table t that belongs to model_id, as a set (empty: None)
RowsOf(store, t, model_id) == {r \in store[t] : r.model_id = model_id}

SetRow(s, t, old, new) == [s EXCEPT !.tx[t] = (@ \ {old}) \cup {new}]

Count(b) == IF b THEN 1 ELSE 0

\* a loop body that creates the Model row it does not find
llm_models_bodyUpsert(acc, m) ==
    LET q == Flush(acc.s)
        found == {r \in q.tx.models : r.author = m.author /\ r.model_name = m.model_name}
    IN  IF ~q.ok THEN [acc EXCEPT !.s = q]
        ELSE IF found = {}
             THEN [s |-> Add(q, "models", LLMModelRow(m)), n |-> acc.n + 1]
        ELSE LET db_model == CHOOSE r \in found : TRUE
                 f1 == Truthy(m.name) /\ EmptyStr(db_model.display_name)
                 f2 == Truthy(m.description) /\ EmptyStr(db_model.description)
                 f3 == TruthyInt(m.context_length) /\ db_model.context_length \in {None, 0}
                 new == [db_model EXCEPT
                            !.display_name = IF f1 THEN m.name ELSE @,
                            !.description = IF f2 THEN m.description ELSE @,
                            !.context_length = IF f3 THEN m.context_length ELSE @]
             IN  [s |-> SetRow(q, "models", db_model, new),
                  n |-> acc.n + Count(f1 \/ f2 \/ f3)]

\* updaters/llm_models.py, lines 23-52
llm_models_body(acc, m) ==
    LET q == Flush(acc.s)
        found == {r \in q.tx.models : r.author = m.author /\ r.model_name = m.model_name}
    IN  IF ~q.ok \/ found = {} THEN [acc EXCEPT !.s = q]
        ELSE LET db_model == CHOOSE r \in found : TRUE
                 f1 == Truthy(m.name) /\ EmptyStr(db_model.display_name)
                 f2 == Truthy(m.description) /\ EmptyStr(db_model.description)
                 f3 == TruthyInt(m.context_length) /\ db_model.context_length \in {None, 0}
                 new == [db_model EXCEPT
                            !.display_name = IF f1 THEN m.name ELSE @,
                            !.description = IF f2 THEN m.description ELSE @,
                            !.context_length = IF f3 THEN m.context_length ELSE @]
             IN  [s |-> SetRow(q, "models", db_model, new),
                  n |-> acc.n + Count(f1 \/ f2 \/ f3)]

\* updaters/pricing.py, lines 28-82
model_pricing_body(acc, m) ==
    LET q == Flush(acc.s)
        model_id == ModelIdOf(q.tx, m)
        found == RowsOf(q.tx, "pricing", model_id)
    IN  IF ~q.ok \/ model_id = None \/ found = {} THEN [acc EXCEPT !.s = q]
        ELSE LET db_pricing == CHOOSE r \in found : TRUE
                 f1 == Truthy(m.pricing.prompt) /\ EmptyCost(db_pricing.prompt_cost)
                 f2 == Truthy(m.pricing.completion) /\ EmptyCost(db_pricing.completion_cost)
                 f3 == Truthy(m.pricing.request) /\ EmptyCost(db_pricing.request_cost)
                 f4 == Truthy(m.pricing.image) /\ EmptyCost(db_pricing.image_cost)
                 f5 == Truthy(m.pricing.web_search) /\ EmptyCost(db_pricing.web_search_cost)
                 f6 == Truthy(m.pricing.internal_reasoning)
                          /\ EmptyCost(db_pricing.internal_reasoning_cost)
                 new == [db_pricing EXCEPT
                            !.prompt_cost = IF f1 THEN m.pricing.prompt ELSE @,
                            !.completion_cost = IF f2 THEN m.pricing.completion ELSE @,
                            !.request_cost = IF f3 THEN m.pricing.request ELSE @,
                            !.image_cost = IF f4 THEN m.pricing.image ELSE @,
                            !.web_search_cost = IF f5 THEN m.pricing.web_search ELSE @,
                            !.internal_reasoning_cost =
                                IF f6 THEN m.pricing.internal_reasoning ELSE @]
             IN  [s |-> SetRow(q, "pricing", db_pricing, new),
                  n |-> acc.n + Count(f1 \/ f2 \/ f3 \/ f4 \/ f5 \/ f6)]

\* updaters/architecture.py, lines 22-61
model_architecture_body(acc, m) ==
    LET q == Flush(acc.s)
        model_id == ModelIdOf(q.tx, m)
        found == RowsOf(q.tx, "architecture", model_id)
    IN  IF ~q.ok \/ model_id = None \/ found = {} THEN [acc EXCEPT !.s = q]
        ELSE LET db_arch == CHOOSE r \in found : TRUE
                 f1 == Truthy(m.architecture.modality) /\ EmptyStr(db_arch.modality)
                 f2 == Truthy(m.architecture.tokenizer) /\ EmptyStr(db_arch.tokenizer)
                 f3 == Truthy(m.architecture.instruct_type) /\ EmptyStr(db_arch.instruct_type)
                 new == [db_arch EXCEPT
                            !.modality = IF f1 THEN m.architecture.modality ELSE @,
                            !.tokenizer = IF f2 THEN m.architecture.tokenizer ELSE @,
                            !.instruct_type = IF f3 THEN m.architecture.instruct_type ELSE @]
             IN  [s |-> SetRow(q, "architecture", db_arch, new),
                  n |-> acc.n + Count(f1 \/ f2 \/ f3)]

\* the values of a list that are not in the set seen, kept with repetitions
Missing(values, seen) == SelectSeq(values, LAMBDA v : v \notin seen)

\* updaters/architecture.py, lines 76-129
architecture_modalities_body(acc, m) ==
    LET q == Flush(acc.s)
        model_id == ModelIdOf(q.tx, m)
        found == RowsOf(q.tx, "architecture", model_id)
    IN  IF ~q.ok \/ model_id = None \/ found = {} THEN [acc EXCEPT !.s = q]
        ELSE LET arch_id == (CHOOSE r \in found : TRUE).id
                 existing_modalities ==
                     {<<r.modality_type, r.modality_value>> :
                         r \in {x \in q.tx.modalities : x.architecture_id = arch_id}}
                 ins == Missing(m.architecture.input_modalities,
                                {e[2] : e \in {x \in existing_modalities : x[1] = "input"}})
                 outs == Missing(m.architecture.output_modalities,
                                 {e[2] : e \in {x \in existing_modalities : x[1] = "output"}})
             IN  [s |-> AddAll(AddAll(q, "modalities", ModalityRows(arch_id, "input", ins)),
                               "modalities", ModalityRows(arch_id, "output", outs)),
                  n |-> acc.n + Len(ins) + Len(outs)]

\* the pass with truthiness tests ("if incoming:") in place of "is not None"
top_provider_bodyTruthy(acc, m) ==
    LET q == Flush(acc.s)
        model_id == ModelIdOf(q.tx, m)
        found == RowsOf(q.tx, "top_provider", model_id)
    IN  IF ~q.ok \/ model_id = None \/ found = {} THEN [acc EXCEPT !.s = q]
        ELSE LET db_top_provider == CHOOSE r \in found : TRUE
                 new == [db_top_provider EXCEPT
                            !.context_length =
                                IF TruthyInt(m.top_provider.context_length)
                                THEN m.top_provider.context_length ELSE @,
                            !.max_completion_tokens =
                                IF TruthyInt(m.top_provider.max_completion_tokens)
                                THEN m.top_provider.max_completion_tokens ELSE @,
                            !.is_moderated = BoolStr(m.top_provider.is_moderated)]
             IN  [s |-> SetRow(q, "top_provider", db_top_provider, new),
                  n |-> acc.n + 1]

\* updaters/providers.py, lines 22-61
top_provider_body(acc, m) ==
    LET q == Flush(acc.s)
        model_id == ModelIdOf(q.tx, m)
        found == RowsOf(q.tx, "top_provider", model_id)
    IN  IF ~q.ok \/ model_id = None \/ found = {} THEN [acc EXCEPT !.s = q]
        ELSE LET db_top_provider == CHOOSE r \in found : TRUE
                 new == [db_top_provider EXCEPT
                            !.context_length =
                                IF m.top_provider.context_length # None
                                THEN m.top_provider.context_length ELSE @,
                            !.max_completion_tokens =
                                IF m.top_provider.max_completion_tokens # None
                                THEN m.top_provider.max_completion_tokens ELSE @,
                            !.is_moderated = BoolStr(m.top_provider.is_moderated)]
             IN  [s |-> SetRow(q, "top_provider", db_top_provider, new),
                  n |-> acc.n + 1]

\* select(ModelEndpoint).where(model_id, name, provider_name, tag)
EndpointsOf(store, model_id, ep) ==
    {e \in store.endpoints :
        /\ e.model_id = model_id /\ e.name = ep.name
        /\ e.provider_name = ep.provider_name /\ e.tag = ep.tag}

\* the loop body without the else branch that resets is_zdr
endpoint_bodyNoReset(acc, model_id, ep, zdr) ==
    LET q == Flush(acc.s)
        found == EndpointsOf(q.tx, model_id, ep)
    IN  IF ~q.ok \/ found = {} THEN [acc EXCEPT !.s = q]
        ELSE LET db_endpoint == CHOOSE e \in found : TRUE
                 f1 == TruthyInt(ep.context_length) /\ db_endpoint.context_length \in {None, 0}
                 f2 == Truthy(ep.quantization) /\ EmptyStr(db_endpoint.quantization)
                 f3 == ep.max_completion_tokens # None
                          /\ db_endpoint.max_completion_tokens = None
                 f4 == ep.max_prompt_tokens # None /\ db_endpoint.max_prompt_tokens = None
                 new == [db_endpoint EXCEPT
                            !.context_length = IF f1 THEN ep.context_length ELSE @,
                            !.quantization = IF f2 THEN ep.quantization ELSE @,
                            !.max_completion_tokens =
                                IF f3 THEN ep.max_completion_tokens ELSE @,
                            !.max_prompt_tokens = IF f4 THEN ep.max_prompt_tokens ELSE @,
                            !.status = ep.status,
                            !.supports_implicit_caching =
                                BoolStr(ep.supports_implicit_caching),
                            !.is_zdr = IF ZdrKey(ep) \in DOMAIN zdr THEN "true" ELSE @]
             IN  [s |-> SetRow(q, "endpoints", db_endpoint, new), n |-> acc.n + 1]

\* updaters/endpoints.py, lines 40-73: one candidate endpoint
endpoint_body(acc, model_id, ep, zdr) ==
    LET q == Flush(acc.s)
        found == EndpointsOf(q.tx, model_id, ep)
    IN  IF ~q.ok \/ found = {} THEN [acc EXCEPT !.s = q]
        ELSE LET db_endpoint == CHOOSE e \in found : TRUE
                 f1 == TruthyInt(ep.context_length) /\ db_endpoint.context_length \in {None, 0}
                 f2 == Truthy(ep.quantization) /\ EmptyStr(db_endpoint.quantization)
                 f3 == ep.max_completion_tokens # None
                          /\ db_endpoint.max_completion_tokens = None
                 f4 == ep.max_prompt_tokens # None /\ db_endpoint.max_prompt_tokens = None
                 new == [db_endpoint EXCEPT
                            !.context_length = IF f1 THEN ep.context_length ELSE @,
                            !.quantization = IF f2 THEN ep.quantization ELSE @,
                            !.max_completion_tokens =
                                IF f3 THEN ep.max_completion_tokens ELSE @,
                            !.max_prompt_tokens = IF f4 THEN ep.max_prompt_tokens ELSE @,
                            !.status = ep.status,
                            !.supports_implicit_caching =
                                BoolStr(ep.supports_implicit_caching),
                            !.is_zdr = BoolStr(ZdrKey(ep) \in DOMAIN zdr)]
             IN  [s |-> SetRow(q, "endpoints", db_endpoint, new), n |-> acc.n + 1]

RECURSIVE endpoints_loop(_, _, _, _)
endpoints_loop(acc, model_id, eps, zdr) ==
    IF eps = <<>> \/ ~acc.s.ok THEN acc
    ELSE endpoints_loop(endpoint_body(acc, model_id, eps[1], zdr), model_id, Tail(eps), zdr)

\* updaters/endpoints.py, lines 25-38 and the loop over m.providers
endpoints_body(acc, m, zdr) ==
    LET q == Flush(acc.s)
        model_id == ModelIdOf(q.tx, m)
    IN  IF ~q.ok \/ model_id = None THEN [acc EXCEPT !.s = q]
        ELSE endpoints_loop([acc EXCEPT !.s = q], model_id, m.providers, zdr)

\* an incoming value that never looks at the ZDR lookup
IncomingCostNoZdr(ep, zdr, f) ==
    IF f \in {"prompt_cost", "completion_cost", "request_cost", "image_cost"}
    THEN Get(ep.pricing, f, NoneStr)
    ELSE NoneStr

\* the value the update path takes as incoming for one EndpointPricing field:
\* the ZDR entry's field when the lookup has the endpoint's key, otherwise the
\* entry of the endpoint's pricing dict under the column's own name
IncomingCost(ep, zdr, f) ==
    IF ZdrKey(ep) \in DOMAIN zdr THEN zdr[ZdrKey(ep)][f]
    ELSE IF f \in {"prompt_cost", "completion_cost", "request_cost", "image_cost"}
         THEN Get(ep.pricing, f, NoneStr)
         ELSE NoneStr

\* updaters/pricing.py, lines 113-226: one candidate endpoint
endpoint_pricing_body(acc, model_id, ep, zdr) ==
    LET q == Flush(acc.s)
        found == EndpointsOf(q.tx, model_id, ep)
        endpoint_id == IF found = {} THEN None ELSE (CHOOSE e \in found : TRUE).id
        rows == {r \in q.tx.endpoint_pricing : r.endpoint_id = endpoint_id}
    IN  IF ~q.ok \/ found = {} \/ rows = {} THEN [acc EXCEPT !.s = q]
        ELSE LET db_pricing == CHOOSE r \in rows : TRUE
                 fill(f) == Truthy(IncomingCost(ep, zdr, f)) /\ EmptyCost(db_pricing[f])
                 new == [c \in DOMAIN db_pricing |->
                            IF c \in ZDRPricingFields /\ fill(c)
                            THEN IncomingCost(ep, zdr, c) ELSE db_pricing[c]]
             IN  [s |-> SetRow(q, "endpoint_pricing", db_pricing, new),
                  n |-> acc.n + Count(\E f \in ZDRPricingFields : fill(f))]

RECURSIVE endpoint_pricing_loop(_, _, _, _)
endpoint_pricing_loop(acc, model_id, eps, zdr) ==
    IF eps = <<>> \/ ~acc.s.ok THEN acc
    ELSE endpoint_pricing_loop(endpoint_pricing_body(acc, model_id, eps[1], zdr),
                               model_id, Tail(eps), zdr)

\* updaters/pricing.py, lines 99-111 and the loop over m.providers
endpoints_pricing_body(acc, m, zdr) ==
    LET q == Flush(acc.s)
        model_id == ModelIdOf(q.tx, m)
    IN  IF ~q.ok \/ model_id = None THEN [acc EXCEPT !.s = q]
        ELSE endpoint_pricing_loop([acc EXCEPT !.s = q], model_id, m.providers, zdr)

\* a loop body that adds every valid incoming name, stored or not
supported_parameters_bodyNoExistingCheck(acc, m) ==
    LET q == Flush(acc.s)
        model_id == ModelIdOf(q.tx, m)
    IN  IF ~q.ok \/ model_id = None THEN [acc EXCEPT !.s = q]
        ELSE LET add == SelectSeq(m.supported_parameters, is_valid_supported_parameter)
             IN  [s |-> AddAll(q, "supported_parameters",
                               SupportedParameterRows(model_id, add)),
                  n |-> acc.n + Len(add)]

\* updaters/parameters.py, lines 28-61
supported_parameters_body(acc, m) ==
    LET q == Flush(acc.s)
        model_id == ModelIdOf(q.tx, m)
    IN  IF ~q.ok \/ model_id = None THEN [acc EXCEPT !.s = q]
        ELSE LET existing_params ==
                     {r.parameter_name : r \in RowsOf(q.tx, "supported_parameters", model_id)}
                 add == SelectSeq(m.supported_parameters,
                                  LAMBDA param : /\ param \notin existing_params
                                                 /\ is_valid_supported_parameter(param))
             IN  [s |-> AddAll(q, "supported_parameters",
                               SupportedParameterRows(model_id, add)),
                  n |-> acc.n + Len(add)]

\* the fields of DefaultParametersValues (utils/validation.py)
DefaultParametersValuesFields ==
    {"temperature", "top_p", "top_k", "min_p", "top_a", "frequency_penalty",
     "max_tokens", "max_completion_tokens", "top_logprobs", "seed", "n",
     "stop_sequences", "parallel_tool_calls", "store", "logprobs"}

\* DefaultParametersValues(**d).model_dump(exclude_none=True): the declared
\* fields of d whose value is not None
DumpDefaults(d) ==
    [k \in {x \in DOMAIN d \cap DefaultParametersValuesFields : d[x] # None} |-> d[k]]

\* a merge in which the existing value wins on a key collision
MergeDictsExistingWins(a, b) ==
    [k \in DOMAIN a \cup DOMAIN b |-> IF k \in DOMAIN a THEN a[k] ELSE b[k]]

\* {**a, **b}
MergeDicts(a, b) ==
    [k \in DOMAIN a \cup DOMAIN b |-> IF k \in DOMAIN b THEN b[k] ELSE a[k]]

\* updaters/parameters.py, lines 76-118
default_parameters_body(acc, m) ==
    LET q == Flush(acc.s)
        model_id == ModelIdOf(q.tx, m)
        found == RowsOf(q.tx, "default_parameters", model_id)
    IN  IF ~q.ok \/ model_id = None \/ found = {} THEN [acc EXCEPT !.s = q]
        ELSE LET db_defaults == CHOOSE r \in found : TRUE
                 valid_defaults ==
                     [k \in {x \in DOMAIN m.default_parameters :
                                is_valid_default_parameter(x)} |-> m.default_parameters[k]]
                 merged_params == MergeDicts(db_defaults.parameters, valid_defaults)
                 new == [db_defaults EXCEPT !.parameters = DumpDefaults(merged_params)]
             IN  IF DOMAIN valid_defaults = {} THEN [acc EXCEPT !.s = q]
                 ELSE [s |-> SetRow(q, "default_parameters", db_defaults, new),
                       n |-> acc.n + 1]

\* the loop body of the pass fn
PassBody(fn, acc, m, zdr) ==
    CASE fn = "update_llm_models" -> llm_models_body(acc, m)
      [] fn = "update_model_pricing" -> model_pricing_body(acc, m)
      [] fn = "update_model_architecture" -> model_architecture_body(acc, m)
      [] fn = "update_architecture_modalities" -> architecture_modalities_body(acc, m)
      [] fn = "update_top_provider" -> top_provider_body(acc, m)
      [] fn = "update_endpoints" -> endpoints_body(acc, m, zdr)
      [] fn = "update_endpoint_pricing" -> endpoints_pricing_body(acc, m, zdr)
      [] fn = "update_supported_parameters" -> supported_parameters_body(acc, m)
      [] fn = "update_default_parameters" -> default_parameters_body(acc, m)

\* for m in models: <body>; an exception leaves the loop
RECURSIVE PassLoop(_, _, _, _)
PassLoop(fn, acc, ms, zdr) ==
    IF ms = <<>> \/ ~acc.s.ok THEN acc
    ELSE PassLoop(fn, PassBody(fn, acc, ms[1], zdr), Tail(ms), zdr)

(***************************************************************************)
(* Calls, returns and exceptions                                           *)
(***************************************************************************)
\* main_async with the insert step placed before the update passes
MainOrderInsertFirst ==
    <<"fetch", "record", "insert",
      "update_llm_models", "update_model_pricing", "update_model_architecture",
      "update_architecture_modalities", "update_top_provider", "update_endpoints",
      "update_endpoint_pricing", "update_supported_parameters",
      "update_default_parameters", "finish">>

\* the statements of main_async after the freshness gate, in program order
MainOrder ==
    <<"fetch", "record",
      "update_llm_models", "update_model_pricing", "update_model_architecture",
      "update_architecture_modalities", "update_top_provider", "update_endpoints",
      "update_endpoint_pricing", "update_supported_parameters",
      "update_default_parameters",
      "insert", "finish">>

UpdateFns ==
    {"update_llm_models", "update_model_pricing", "update_model_architecture",
     "update_architecture_modalities", "update_top_provider", "update_endpoints",
     "update_endpoint_pricing", "update_supported_parameters",
     "update_default_parameters"}

SummaryFields == UpdateFns \cup {"inserted", "skipped"}

NoSummary == [f \in SummaryFields |-> None]

NoResult == [kind |-> "none", fn |-> "none", value |-> <<>>]

\* the statement that follows statement p
After(p) ==
    IF frame = "direct" THEN "end"
    ELSE MainOrder[(CHOOSE k \in 1..Len(MainOrder) : MainOrder[k] = p) + 1]

\* function fn returns value v (a tuple) to its caller with committed store d
Return(fn, v, d) ==
    /\ pc' = After(fn)
    /\ result' = [kind |-> "return", fn |-> fn, value |-> v]
    /\ summary' = IF frame = "direct" THEN summary
                  ELSE IF fn = "insert"
                       THEN [summary EXCEPT !["inserted"] = v[1], !["skipped"] = v[2]]
                       ELSE IF fn \in UpdateFns THEN [summary EXCEPT ![fn] = v[1]]
                       ELSE summary
    /\ session' = NewSession(d)

\* function fn raises; no caller catches it: the session is closed without a
\* commit and the process ends
Raise(fn, d) ==
    /\ pc' = "end"
    /\ result' = [kind |-> "raise", fn |-> fn, value |-> <<>>]
    /\ session' = NewSession(d)
    /\ UNCHANGED summary

insertLocals == <<existing, new_models, i, inserted_count, skipped, failed>>
runLocals == <<now, force_refresh, should_sync_models>>
resolverVars == <<ep_in, zdr_in, endpoint_pricing>>
fetchVars == <<listing, raw_models, gather>>

(***************************************************************************)
(* bulk_insert_models                                                      *)
(***************************************************************************)
\* lines 45-54: load the existing keys, filter, early return
BulkInsertBegin ==
    /\ pc = "insert"
    /\ LET ex == get_existing_models_from_db(session.tx)
           nm == NewModels(models, ex)
       IN  /\ existing' = ex
           /\ new_models' = nm
           /\ skipped' = Len(models) - Len(nm)
           /\ inserted_count' = 0
           /\ i' = 1
           /\ failed' = {}
           /\ IF nm = <<>>
              THEN /\ Return("insert", <<0, Len(models) - Len(nm)>>, db)
              ELSE /\ pc' = "insert_loop"
                   /\ UNCHANGED <<result, summary, session>>
    /\ UNCHANGED <<db, frame, models, zdr_lookup, repeat, runLocals, resolverVars, fetchVars, config>>

\* an iteration that commits the candidate it has just inserted
InsertModelCommitEach ==
    /\ pc = "insert_loop"
    /\ LET r == Flush(InsertSubgraph(session, new_models[i], zdr_lookup))
       IN  IF r.ok
           THEN /\ session' = r
                /\ db' = r.tx
                /\ inserted_count' = inserted_count + 1
                /\ UNCHANGED failed
           ELSE /\ session' = Rollback(db)
                /\ failed' = failed \cup {i}
                /\ UNCHANGED <<db, inserted_count>>
    /\ i' = i + 1
    /\ pc' = IF i = Len(new_models) THEN "insert_commit" ELSE "insert_loop"
    /\ UNCHANGED <<frame, models, zdr_lookup, existing, new_models, skipped,
                   result, repeat, summary, runLocals, resolverVars, fetchVars, config>>

\* lines 56-216: one iteration of the loop over new_models
InsertModel ==
    /\ pc = "insert_loop"
    /\ LET r == InsertSubgraph(session, new_models[i], zdr_lookup)
       IN  IF r.ok
           THEN /\ session' = r
                /\ inserted_count' = inserted_count + 1
                /\ UNCHANGED failed
           ELSE /\ session' = Rollback(db)
                /\ failed' = failed \cup {i}
                /\ UNCHANGED inserted_count
    /\ i' = i + 1
    /\ pc' = IF i = Len(new_models) THEN "insert_commit" ELSE "insert_loop"
    /\ UNCHANGED <<db, frame, models, zdr_lookup, existing, new_models, skipped,
                   result, repeat, summary, runLocals, resolverVars, fetchVars, config>>

\* lines 218-222: the single commit of the batch, and the return
InsertCommit ==
    /\ pc = "insert_commit"
    /\ LET c == Flush(session)
       IN  IF c.ok
           THEN /\ db' = c.tx
                /\ Return("insert", <<inserted_count, skipped>>, c.tx)
           ELSE /\ Raise("insert", db)
                /\ UNCHANGED db
    /\ UNCHANGED <<frame, models, zdr_lookup, insertLocals, repeat, runLocals, resolverVars, fetchVars, config>>

(***************************************************************************)
(* Direct calls of the reconciler functions                                *)
(***************************************************************************)
Call(fn, ms, z) ==
    /\ pc = "idle"
    /\ frame' = "direct"
    /\ pc' = fn
    /\ models' = ms
    /\ zdr_lookup' = z
    /\ repeat' = FALSE
    /\ result' = NoResult
    /\ session' = NewSession(db)
    /\ UNCHANGED <<db, insertLocals, summary, runLocals, resolverVars, fetchVars, config>>

CallBulkInsert == \E ms \in DirectBatches, z \in ZdrLookups : Call("insert", ms, z)

\* the caller runs bulk_insert_models a second time with identical input
CallBulkInsertAgain ==
    /\ pc = "end"
    /\ frame = "direct"
    /\ result.fn = "insert"
    /\ result.kind = "return"
    /\ ~repeat
    /\ pc' = "insert"
    /\ repeat' = TRUE
    /\ result' = NoResult
    /\ session' = NewSession(db)
    /\ UNCHANGED <<db, frame, models, zdr_lookup, insertLocals, summary, runLocals,
                   resolverVars, fetchVars, config>>

(***************************************************************************)
(* One update pass: update_existing_*                                      *)
(***************************************************************************)
\* a pass whose rows become durable one by one: the rows written before the
\* failing one stay
UpdatePassKeepPartial ==
    /\ pc \in UpdateFns
    /\ LET acc == PassLoop(pc, [s |-> session, n |-> 0], models, zdr_lookup)
           c == IF acc.n > 0 THEN Flush(acc.s) ELSE acc.s
       IN  IF c.ok
           THEN /\ db' = IF acc.n > 0 THEN c.tx ELSE db
                /\ Return(pc, <<acc.n>>, db')
           ELSE /\ db' = FlushRows(acc.s.tx, acc.s.pending).tx
                /\ Raise(pc, db')
    /\ UNCHANGED <<frame, models, zdr_lookup, insertLocals, repeat, runLocals, resolverVars, fetchVars, config>>

\* the loop over the candidates, then "if updated_count > 0: commit"
UpdatePass ==
    /\ pc \in UpdateFns
    /\ LET acc == PassLoop(pc, [s |-> session, n |-> 0], models, zdr_lookup)
           c == IF acc.n > 0 THEN Flush(acc.s) ELSE acc.s
       IN  IF c.ok
           THEN /\ db' = IF acc.n > 0 THEN c.tx ELSE db
                /\ Return(pc, <<acc.n>>, db')
           ELSE /\ Raise(pc, db)
                /\ UNCHANGED db
    /\ UNCHANGED <<frame, models, zdr_lookup, insertLocals, repeat, runLocals, resolverVars, fetchVars, config>>

CallUpdate == \E fn \in UpdateFns, ms \in Batches, z \in ZdrLookups : Call(fn, ms, z)

\* no asyncio.gather is running
NoGather == [tasks |-> <<>>, done |-> <<>>]

\* the state of the locals when no function is running
NoLocals ==
    /\ frame = "direct"
    /\ models = <<>>
    /\ zdr_lookup = <<>>
    /\ existing = {}
    /\ new_models = <<>>
    /\ i = 1
    /\ inserted_count = 0
    /\ skipped = 0
    /\ failed = {}
    /\ result = NoResult
    /\ repeat = FALSE
    /\ force_refresh = FALSE
    /\ should_sync_models = FALSE
    /\ summary = NoSummary
    /\ listing = <<>>
    /\ raw_models = <<>>
    /\ gather = NoGather

\* the caller is done with the outcome of the call (of the run): the frame and
\* its locals are gone, the committed store and the clock stay
Forget ==
    /\ pc = "end"
    /\ pc' = "idle"
    /\ frame' = "direct"
    /\ models' = <<>>
    /\ zdr_lookup' = <<>>
    /\ existing' = {}
    /\ new_models' = <<>>
    /\ i' = 1
    /\ inserted_count' = 0
    /\ skipped' = 0
    /\ failed' = {}
    /\ result' = NoResult
    /\ repeat' = FALSE
    /\ force_refresh' = FALSE
    /\ should_sync_models' = FALSE
    /\ summary' = NoSummary
    /\ listing' = <<>>
    /\ raw_models' = <<>>
    /\ gather' = NoGather
    /\ session' = NewSession(db)
    /\ UNCHANGED <<db, now, resolverVars, config>>

InitCommon ==
    /\ db = EmptyStore
    /\ session = NewSession(EmptyStore)
    /\ pc = "idle"
    /\ NoLocals
    /\ config = SourceConfig
    /\ now = 0
    /\ ep_in = EpGpt
    /\ zdr_in = <<>>
    /\ endpoint_pricing = ModelEndpointPricingRow(None, EpGpt, <<>>)

Init == InitCommon

Next ==
    \/ CallBulkInsert
    \/ CallBulkInsertAgain
    \/ BulkInsertBegin
    \/ InsertModel
    \/ InsertCommit
    \/ CallUpdate
    \/ UpdatePass
    \/ Forget

Spec == Init /\ [][Next]_vars

(***************************************************************************)
(* main_async: freshness gate, fetch, sync metadata, update passes, insert *)
(***************************************************************************)
\* the gate with "age_hours > max_age_hours"
should_syncStrict(store, sync_type, max_age_hours, t) ==
    LET rows == {r \in store.sync_metadata : r.sync_type = sync_type}
    IN  IF rows = {} THEN TRUE
        ELSE LET last_sync == CHOOSE r \in rows :
                                  \A o \in rows : o.last_sync_at <= r.last_sync_at
                 age_hours == t - last_sync.last_sync_at
             IN  age_hours > max_age_hours

\* should_sync(session, sync_type, max_age_hours) at wall-clock time t
should_sync(store, sync_type, max_age_hours, t) ==
    LET rows == {r \in store.sync_metadata : r.sync_type = sync_type}
    IN  IF rows = {} THEN TRUE
        ELSE LET last_sync == CHOOSE r \in rows :
                                  \A o \in rows : o.last_sync_at <= r.last_sync_at
                 age_hours == t - last_sync.last_sync_at
             IN  age_hours >= max_age_hours

\* session.merge(SyncMetadata(sync_type=..., ...)): the instance carries no
\* primary key, so merge finds no row to reconcile with and adds a new object
Merge(s, r) == Add(s, "sync_metadata", r)

SyncMetadataRow(sync_type, t, models_count, zdr_endpoints_count) ==
    [sync_type |-> sync_type, last_sync_at |-> t, models_count |-> models_count,
     zdr_endpoints_count |-> zdr_endpoints_count]

\* time passes between two runs
Tick ==
    /\ pc = "idle"
    /\ now + ClockStep <= MaxClock
    /\ now' = now + ClockStep
    /\ UNCHANGED <<db, session, pc, frame, models, zdr_lookup, insertLocals, result,
                   repeat, force_refresh, should_sync_models, summary, resolverVars, fetchVars, config>>

\* the start of a run whose gate asks should_sync even when forced
StartRunGateOnly ==
    /\ pc = "idle"
    /\ IF ~validate_parameter_constants(config.supported, config.defaults)
       THEN /\ pc' = "end"
            /\ result' = [kind |-> "raise", fn |-> "validate_parameter_constants",
                          value |-> <<>>]
            /\ UNCHANGED <<db, session, frame, models, zdr_lookup, insertLocals,
                           repeat, runLocals, summary, resolverVars, fetchVars,
                           config>>
       ELSE /\ \E force \in BOOLEAN :
                  LET sync == should_sync(db, "openrouter_models", MaxAgeHours, now)
                  IN  /\ force_refresh' = force
                      /\ should_sync_models' = sync
                      /\ pc' = IF sync THEN "fetch" ELSE "update_llm_models"
            /\ frame' = "main_async"
            /\ models' = <<>>
            /\ zdr_lookup' = <<>>
            /\ summary' = NoSummary
            /\ result' = NoResult
            /\ session' = NewSession(db)
            /\ UNCHANGED <<db, insertLocals, repeat, now, resolverVars, fetchVars, config>>

\* the start of a run that fetches whatever the gate answers
StartRunIgnoreGate ==
    /\ pc = "idle"
    /\ IF ~validate_parameter_constants(config.supported, config.defaults)
       THEN /\ pc' = "end"
            /\ result' = [kind |-> "raise", fn |-> "validate_parameter_constants",
                          value |-> <<>>]
            /\ UNCHANGED <<db, session, frame, models, zdr_lookup, insertLocals,
                           repeat, runLocals, summary, resolverVars, fetchVars,
                           config>>
       ELSE /\ \E force \in BOOLEAN :
                  LET sync == IF force THEN TRUE
                              ELSE should_sync(db, "openrouter_models", MaxAgeHours, now)
                  IN  /\ force_refresh' = force
                      /\ should_sync_models' = sync
                      /\ pc' = "fetch"
            /\ frame' = "main_async"
            /\ models' = <<>>
            /\ zdr_lookup' = <<>>
            /\ summary' = NoSummary
            /\ result' = NoResult
            /\ session' = NewSession(db)
            /\ UNCHANGED <<db, insertLocals, repeat, now, resolverVars, fetchVars, config>>

\* lines 94-127: the process starts, the gate decides whether to sync
StartRun ==
    /\ pc = "idle"
    /\ IF ~validate_parameter_constants(config.supported, config.defaults)
       THEN /\ pc' = "end"
            /\ result' = [kind |-> "raise", fn |-> "validate_parameter_constants",
                          value |-> <<>>]
            /\ UNCHANGED <<db, session, frame, models, zdr_lookup, insertLocals,
                           repeat, runLocals, summary, resolverVars, fetchVars,
                           config>>
       ELSE /\ \E force \in BOOLEAN :
                  LET sync == IF force THEN TRUE
                              ELSE should_sync(db, "openrouter_models", MaxAgeHours, now)
                  IN  /\ force_refresh' = force
                      /\ should_sync_models' = sync
                      /\ pc' = IF sync THEN "fetch" ELSE "update_llm_models"
            /\ frame' = "main_async"
            /\ models' = <<>>
            /\ zdr_lookup' = <<>>
            /\ summary' = NoSummary
            /\ result' = NoResult
            /\ session' = NewSession(db)
            /\ UNCHANGED <<db, insertLocals, repeat, now, resolverVars, fetchVars, config>>

\* lines 128-146: the three fetches succeed
FetchOk ==
    /\ pc = "fetch"
    /\ models' \in Batches \cup {<<>>}
    /\ zdr_lookup' \in ZdrLookups
    /\ pc' = After("fetch")
    /\ UNCHANGED <<db, session, frame, insertLocals, result, repeat, runLocals, summary,
                   resolverVars, fetchVars, config>>

\* a run that records the sync metadata before it fetches, and then fails
FetchFailRecorded ==
    /\ pc = "fetch"
    /\ pc' = "end"
    /\ result' = [kind |-> "exit", fn |-> "fetch", value |-> <<>>]
    /\ db' = Flush(Merge(NewSession(db),
                         SyncMetadataRow("openrouter_models", now, 0, None))).tx
    /\ UNCHANGED <<session, frame, models, zdr_lookup, insertLocals, repeat,
                   runLocals, summary, resolverVars, fetchVars, config>>

\* a fetch fails with an HTTP error: sys.exit(1)
FetchFail ==
    /\ pc = "fetch"
    /\ pc' = "end"
    /\ result' = [kind |-> "exit", fn |-> "fetch", value |-> <<>>]
    /\ UNCHANGED <<db, session, frame, models, zdr_lookup, insertLocals, repeat,
                   runLocals, summary, resolverVars, fetchVars, config>>

\* lines 148-168: record the sync metadata of both categories and commit
RecordSyncMetadata ==
    /\ pc = "record"
    /\ LET s1 == Merge(NewSession(db),
                       SyncMetadataRow("openrouter_models", now, Len(models), None))
           s2 == Merge(s1, SyncMetadataRow("zdr_endpoints", now, None,
                                           Cardinality(DOMAIN zdr_lookup)))
           c == Flush(s2)
       IN  IF c.ok
           THEN /\ db' = c.tx
                /\ Return("record", <<>>, c.tx)
           ELSE /\ Raise("record", db)
                /\ UNCHANGED db
    /\ UNCHANGED <<frame, models, zdr_lookup, insertLocals, repeat, runLocals, resolverVars, fetchVars, config>>

\* lines 251-256: the pipeline completed
Finish ==
    /\ pc = "finish"
    /\ pc' = "end"
    /\ result' = [kind |-> "done", fn |-> "main_async", value |-> <<>>]
    /\ UNCHANGED <<db, session, frame, models, zdr_lookup, insertLocals, repeat,
                   runLocals, summary, resolverVars, fetchVars, config>>

\* the process is terminated in the middle of a run: the open session is lost
Terminate ==
    /\ frame = "main_async"
    /\ pc \notin {"idle", "end"}
    /\ pc' = "end"
    /\ result' = [kind |-> "killed", fn |-> pc, value |-> <<>>]
    /\ session' = NewSession(db)
    /\ UNCHANGED <<db, frame, models, zdr_lookup, insertLocals, repeat, runLocals,
                   summary, resolverVars, fetchVars, config>>

NextRun ==
    \/ Tick
    \/ StartRun
    \/ FetchOk
    \/ FetchFail
    \/ RecordSyncMetadata
    \/ UpdatePass
    \/ BulkInsertBegin
    \/ InsertModel
    \/ InsertCommit
    \/ Finish
    \/ Terminate
    \/ Forget

SpecRun == Init /\ [][NextRun]_vars

(***************************************************************************)
(* The pricing resolver on its own                                         *)
(***************************************************************************)
\* the pricing blocks an endpoint candidate can carry
EpPricingBlocks ==
    {[k \in S |-> "1"] : S \in SUBSET {"prompt", "completion", "request", "image"}}

\* the raw pricing of a ZDR entry: any subset of the ten fields is present
ZdrRawPricings == {[k \in S |-> "0.5"] : S \in SUBSET ZDRPricingFields}

InitResolver ==
    /\ db = EmptyStore
    /\ session = NewSession(EmptyStore)
    /\ NoLocals
    /\ config = SourceConfig
    /\ now = 0
    /\ pc = "resolve"
    /\ ep_in \in {[EpGemini EXCEPT !.pricing = b] : b \in EpPricingBlocks}
    /\ zdr_in \in {<<>>} \cup
                  {[k \in {ZdrKey(EpGemini)} |-> ZDREndpointPricing(raw)] :
                      raw \in ZdrRawPricings}
    /\ endpoint_pricing = ModelEndpointPricingRow(None, EpGpt, <<>>)

\* bulk_insert.py lines 178-209 applied to one endpoint candidate
Resolve ==
    /\ pc = "resolve"
    /\ endpoint_pricing' = ModelEndpointPricingRow(1, ep_in, zdr_in)
    /\ pc' = "resolved"
    /\ UNCHANGED <<db, session, frame, models, zdr_lookup, insertLocals, result, repeat,
                   runLocals, summary, ep_in, zdr_in, fetchVars, config>>

NextResolver == Resolve

SpecResolver == InitResolver /\ [][NextResolver]_vars

(***************************************************************************)
(* The update passes on a database that already holds a model              *)
(***************************************************************************)
\* candidates that differ from GeminiEp in the fields update_existing_llm_models reads
ModelVariants(names, descriptions, lengths) ==
    {[GeminiEp EXCEPT !.name = n, !.description = d, !.context_length = c] :
        n \in names, d \in descriptions, c \in lengths}

\* candidates that differ from GeminiEp in the six fields of the Pricing block
PricingVariants(prompts, costs, rest) ==
    {[GeminiEp EXCEPT !.pricing =
         [prompt |-> v[1], completion |-> v[2], request |-> v[3], image |-> v[4],
          web_search |-> v[5], internal_reasoning |-> v[6]]] :
        v \in prompts \X costs \X rest \X rest \X costs \X rest}

\* candidates that differ from GeminiEp in the TopProvider block
TopProviderVariants(lengths, maxes) ==
    {[GeminiEp EXCEPT !.top_provider =
         [context_length |-> c, max_completion_tokens |-> x, is_moderated |-> b]] :
        c \in lengths, x \in maxes, b \in BOOLEAN}

\* candidates that differ from GeminiEp in the fields of their provider endpoint
EndpointVariants(lengths, quantizations, maxCompletions, maxPrompts, statuses, cachings) ==
    {[GeminiEp EXCEPT !.providers =
         <<[EpGemini EXCEPT !.context_length = c, !.quantization = q,
                            !.max_completion_tokens = x, !.max_prompt_tokens = y,
                            !.status = st, !.supports_implicit_caching = b]>>] :
        c \in lengths, q \in quantizations, x \in maxCompletions, y \in maxPrompts,
        st \in statuses, b \in cachings}

\* candidates that differ from GeminiEp in the pricing block of their endpoint
EndpointPricingVariants(blocks) ==
    {[GeminiEp EXCEPT !.providers = <<[EpGemini EXCEPT !.pricing = b]>>] : b \in blocks}

\* candidates that differ from GeminiEp in the modality lists of their architecture
ModalityVariants(ins, outs) ==
    {[GeminiEp EXCEPT !.architecture.input_modalities = a,
                      !.architecture.output_modalities = b] : a \in ins, b \in outs}

\* candidates built from a record like GeminiEp's with the raw parameter list v
SupportedParameterVariants(raws) ==
    {[GeminiEp EXCEPT !.supported_parameters = validate_supported_parameters(v)] :
        v \in raws}

\* candidates built from a record like GeminiEp's with the raw default_parameters v
DefaultParameterVariants(raws) ==
    {[GeminiEp EXCEPT !.default_parameters = validate_default_parameters(v)] :
        v \in raws}

\* the candidates an earlier sync stored
StoredCandidates ==
    ModelVariants({"", "Bar"}, {"", "d"}, {0, 8})
    \cup PricingVariants({"0", "5"}, {"0", "5"}, {"0", "5"})
    \cup TopProviderVariants({None, 8}, {None, 4})
    \cup EndpointVariants({0, 8}, {NoneStr, "fp8"}, {None, 0}, {None}, {1}, {TRUE})
    \cup EndpointPricingVariants({<<>>, [prompt |-> "1"],
                                  [prompt |-> "1", completion |-> "2"]})
    \cup DefaultParameterVariants({[temperature |-> 7], [temperature |-> None],
                                   [temperature |-> 7, top_p |-> 9, top_k |-> 40]})

\* the database after scripts/sync_openrouter_models.py stored candidate m with
\* its first provider endpoint (the endpoint row carries its model_id) and the
\* columns added since took their defaults
LegacyStore(m) ==
    LET s7 == Flush(InsertSubgraph(NewSession(EmptyStore),
                                   [m EXCEPT !.providers = <<>>], <<>>))
        ep == m.providers[1]
        s8 == Flush(Add(s7, "endpoints",
                        [ModelEndpointRow(1, ep, "false") EXCEPT !.model_id = 1]))
        s9 == Flush(Add(s8, "endpoint_pricing", ModelEndpointPricingRow(1, ep, <<>>)))
    IN  s9.tx

\* the candidates a later fetch hands to pass fn
Incoming(fn) ==
    CASE fn = "update_llm_models" -> ModelVariants({"", "Foo"}, {"", "e"}, {0, 16})
      [] fn = "update_model_pricing" -> PricingVariants({"", "0", "7"}, {"0", "7"}, {"7"})
      [] fn = "update_top_provider" -> TopProviderVariants({None, 16}, {None, 0, 8})
      [] fn = "update_endpoints" ->
             EndpointVariants({0, 16}, {NoneStr, "int4"}, {None, 8}, {8}, {0, 1}, BOOLEAN)
      [] fn = "update_endpoint_pricing" ->
             EndpointPricingVariants({[prompt |-> "1"],
                                      [prompt |-> "3", completion |-> "3"]})
      [] fn = "update_architecture_modalities" ->
             ModalityVariants({<<"text">>, <<"text", "image">>, <<"image", "image">>},
                              {<<"text">>, <<"audio">>})
      [] fn = "update_supported_parameters" ->
             SupportedParameterVariants({<<"temperature">>, <<"top_k", "temperature">>,
                                         <<"bogus", "seed", "top_k">>, <<"bogus">>,
                                         <<"top_k", "top_k">>})
      [] fn = "update_default_parameters" ->
             DefaultParameterVariants({<<>>, [top_p |-> 9, bogus |-> 1], [bogus |-> 1],
                                       [temperature |-> 5], [temperature |-> None],
                                       [frequency_penalty |-> 0, top_k |-> 40]})
      [] OTHER -> {GeminiEp, Gemini}

\* the raw pricing of the ZDR entry of EpGemini in a later fetch
ZdrUpdateRaws ==
    UNION {[S -> {"0.5", "0.7"}] :
              S \in SUBSET {"prompt_cost", "completion_cost", "image_output_cost"}}

\* the ZDR lookup pass fn receives (only two passes take one)
IncomingZdr(fn) ==
    CASE fn = "update_endpoints" -> ZdrLookups
      [] fn = "update_endpoint_pricing" ->
             {<<>>} \cup {[k \in {ZdrKey(EpGemini)} |-> ZDREndpointPricing(raw)] :
                             raw \in ZdrUpdateRaws}
      [] OTHER -> {<<>>}

InitUpdate ==
    /\ db \in {LegacyStore(m) : m \in StoredCandidates}
    /\ session = NewSession(db)
    /\ pc = "idle"
    /\ NoLocals
    /\ config = SourceConfig
    /\ now = 0
    /\ ep_in = EpGpt
    /\ zdr_in = <<>>
    /\ endpoint_pricing = ModelEndpointPricingRow(None, EpGpt, <<>>)

\* fetched candidates that match no stored row: openai/gpt, whose Model is
\* not stored, and google/gemini with an endpoint that is not stored
Unmatched == {[Gpt EXCEPT !.providers = <<EpGpt>>], [GeminiEp EXCEPT !.providers = <<EpGpt>>]}

\* a run hands one fetched candidate to a pass
CallUpdateOn ==
    \E fn \in UpdateFns :
        \E m \in Incoming(fn) \cup Unmatched, z \in IncomingZdr(fn) : Call(fn, <<m>>, z)

\* a later run hands another fetched candidate to the same pass
UpdateAgain ==
    /\ pc = "end"
    /\ frame = "direct"
    /\ result.fn \in UpdateFns
    /\ result.kind = "return"
    /\ \E m \in Incoming(result.fn), z \in IncomingZdr(result.fn) :
          /\ models' = <<m>>
          /\ zdr_lookup' = z
    /\ pc' = result.fn
    /\ result' = NoResult
    /\ session' = NewSession(db)
    /\ UNCHANGED <<db, frame, insertLocals, repeat, summary, runLocals, resolverVars, fetchVars, config>>

NextUpdate ==
    \/ CallUpdateOn
    \/ UpdatePass
    \/ UpdateAgain

SpecUpdate == InitUpdate /\ [][NextUpdate]_vars

(***************************************************************************)
(* The fetch layer: fetchers/openrouter.py, models/openrouter.py           *)
(* A raw record is the JSON object of one model, a function from its keys; *)
(* an id is the sequence of its segments between the "/" characters.       *)
(***************************************************************************)
\* the fields of OpenRouterModel without a default
RequiredModelFields ==
    {"id", "canonical_slug", "name", "description", "context_length", "pricing",
     "architecture", "top_provider", "created", "supported_parameters"}

\* the fields of Endpoint without a default
RequiredEndpointFields ==
    {"name", "model_name", "context_length", "pricing", "provider_name", "tag",
     "supported_parameters", "status", "supports_implicit_caching"}

\* Pricing(**raw), Architecture(**raw), TopProvider(**raw): the defaults
\* fill the absent optional fields
ParsePricing(raw) ==
    [prompt |-> raw.prompt, completion |-> raw.completion,
     request |-> Get(raw, "request", "0"), image |-> Get(raw, "image", "0"),
     web_search |-> Get(raw, "web_search", "0"),
     internal_reasoning |-> Get(raw, "internal_reasoning", "0")]

ParseArchitecture(raw) ==
    [modality |-> raw.modality, input_modalities |-> raw.input_modalities,
     output_modalities |-> raw.output_modalities, tokenizer |-> raw.tokenizer,
     instruct_type |-> Get(raw, "instruct_type", NoneStr)]

ParseTopProvider(raw) ==
    [context_length |-> Get(raw, "context_length", None),
     max_completion_tokens |-> Get(raw, "max_completion_tokens", None),
     is_moderated |-> Get(raw, "is_moderated", FALSE)]

\* OpenRouterModel(**raw_model) raises no ValidationError
ParsesAsModel(raw) ==
    /\ RequiredModelFields \subseteq DOMAIN raw
    /\ {"prompt", "completion"} \subseteq DOMAIN raw.pricing
    /\ {"modality", "input_modalities", "output_modalities", "tokenizer"}
           \subseteq DOMAIN raw.architecture

\* the OpenRouterModel built from a raw record that parses
OpenRouterModel(raw) ==
    [id |-> raw.id, name |-> raw.name, description |-> raw.description,
     context_length |-> raw.context_length, pricing |-> ParsePricing(raw.pricing),
     architecture |-> ParseArchitecture(raw.architecture),
     top_provider |-> ParseTopProvider(raw.top_provider),
     supported_parameters |-> validate_supported_parameters(raw.supported_parameters),
     default_parameters |->
         validate_default_parameters(Get(raw, "default_parameters", <<>>))]

\* [parsed for raw in raws if (parsed := parse_openrouter_model(raw)) is not None]
RECURSIVE ParseAll(_)
ParseAll(raws) ==
    IF raws = <<>> THEN <<>>
    ELSE IF ParsesAsModel(raws[1])
         THEN <<OpenRouterModel(raws[1])>> \o ParseAll(Tail(raws))
         ELSE ParseAll(Tail(raws))

\* str.lower() on the provider names that occur
Lower(x) ==
    CASE x = "OpenAI" -> "openai"
      [] x = "Google" -> "google"
      [] OTHER -> x

\* "/".join(segments)
RECURSIVE Join(_)
Join(segs) ==
    IF Len(segs) = 1 THEN segs[1] ELSE segs[1] \o "/" \o Join(Tail(segs))

normalize_model_name(model_name) ==
    CASE model_name = "claude-sonnet-4.5" -> "claude-sonnet-4-5"
      [] model_name = "claude-haiku-4.5" -> "claude-haiku-4-5"
      [] model_name = "claude-opus-4.1" -> "claude-opus-4-1"
      [] OTHER -> model_name

\* an id without "/" parsed as a model of the author "unknown"
parse_provider_modelLenient(model_id) ==
    IF Len(model_id) < 2 THEN <<"unknown", model_id[1]>>
    ELSE <<Lower(model_id[1]), normalize_model_name(Join(Tail(model_id)))>>

\* parse_provider_model: (None, None) without "/", else split("/", 1)
parse_provider_model(model_id) ==
    IF Len(model_id) < 2 THEN <<NoneStr, NoneStr>>
    ELSE <<Lower(model_id[1]), normalize_model_name(Join(Tail(model_id)))>>

\* Endpoint(**ep)
ParseEndpoint(ep) ==
    [name |-> ep.name, model_name |-> ep.model_name,
     context_length |-> ep.context_length, pricing |-> ep.pricing,
     provider_name |-> ep.provider_name, tag |-> ep.tag,
     quantization |-> Get(ep, "quantization", NoneStr),
     max_completion_tokens |-> Get(ep, "max_completion_tokens", None),
     max_prompt_tokens |-> Get(ep, "max_prompt_tokens", None),
     status |-> ep.status, supports_implicit_caching |-> ep.supports_implicit_caching]

\* the raw endpoint of Google for gemini, as the endpoints API lists it
RawEpGemini ==
    [name |-> "Google | gemini", model_name |-> "gemini", context_length |-> 8,
     pricing |-> [prompt |-> "1"], provider_name |-> "Google", tag |-> "google",
     quantization |-> "fp8", max_completion_tokens |-> 4,
     supported_parameters |-> <<"temperature">>, status |-> 0,
     supports_implicit_caching |-> TRUE]

Without(d, k) == [x \in DOMAIN d \ {k} |-> d[x]]

HttpError == [error |-> "HTTPError"]

\* what GET /models/{id}/endpoints answers: response.json().get("data", {})
EndpointsResponse(model_id) ==
    CASE model_id = <<"google", "gemini">> -> [endpoints |-> <<RawEpGemini>>]
      [] model_id = <<"google", "broken">> -> [endpoints |-> <<Without(RawEpGemini, "tag")>>]
      [] model_id = <<"google", "down">> -> HttpError
      [] OTHER -> <<>>

\* fetch_model_endpoints returns a candidate, not None
HasCandidate(model) ==
    LET data == EndpointsResponse(model.id)
        eps == Get(data, "endpoints", <<>>)
        parsed == parse_provider_model(model.id)
    IN  /\ "error" \notin DOMAIN data
        /\ \A k \in DOMAIN eps : RequiredEndpointFields \subseteq DOMAIN eps[k]
        /\ Truthy(parsed[1])
        /\ Truthy(parsed[2])

\* the OpenRouterModelWithEndpoints fetch_model_endpoints builds
OpenRouterModelWithEndpoints(model) ==
    LET eps == Get(EndpointsResponse(model.id), "endpoints", <<>>)
        parsed == parse_provider_model(model.id)
    IN  [author |-> parsed[1], model_name |-> parsed[2], name |-> model.name,
         description |-> model.description, context_length |-> model.context_length,
         pricing |-> model.pricing, architecture |-> model.architecture,
         top_provider |-> model.top_provider,
         supported_parameters |-> validate_supported_parameters(model.supported_parameters),
         default_parameters |-> validate_default_parameters(model.default_parameters),
         providers |-> [k \in DOMAIN eps |-> ParseEndpoint(eps[k])]]

\* fetch_all_endpoints_parallel: [m for m in results if m is not None]
RECURSIVE fetch_all_endpoints_parallel(_)
fetch_all_endpoints_parallel(ms) ==
    IF ms = <<>> THEN <<>>
    ELSE IF HasCandidate(ms[1])
         THEN <<OpenRouterModelWithEndpoints(ms[1])>>
              \o fetch_all_endpoints_parallel(Tail(ms))
         ELSE fetch_all_endpoints_parallel(Tail(ms))

\* the raw record of openai/gpt: it names a parameter and a default-parameter
\* key that the whitelists do not have
RawGpt ==
    [id |-> <<"OpenAI", "gpt">>, canonical_slug |-> "openai/gpt", name |-> "GPT",
     description |-> "d", context_length |-> 8,
     pricing |-> [prompt |-> "1", completion |-> "2"],
     architecture |-> [modality |-> "text->text", input_modalities |-> <<"text">>,
                       output_modalities |-> <<"text">>, tokenizer |-> "GPT"],
     top_provider |-> [context_length |-> 8, is_moderated |-> TRUE],
     created |-> 0,
     supported_parameters |-> <<"temperature", "bogus", "top_p">>,
     default_parameters |-> [temperature |-> 7, bogus |-> 1]]

\* the raw record of google/gemini, without default_parameters
RawGemini ==
    Without([RawGpt EXCEPT !.id = <<"google", "gemini">>, !.name = "Gemini",
                           !.canonical_slug = "google/gemini",
                           !.supported_parameters = <<"temperature", "top_p">>],
            "default_parameters")

\* the raw records a listing can hold: two that parse, one whose name is
\* normalized, one whose id has a second "/", and records that fail: no id,
\* a pricing block without completion, an id without "/", an endpoint
\* without tag, an endpoints request that fails
RawRecords ==
    {RawGpt, RawGemini,
     [RawGpt EXCEPT !.id = <<"anthropic", "claude-sonnet-4.5">>],
     Without(RawGemini, "id"),
     [RawGemini EXCEPT !.pricing = [prompt |-> "1"]],
     [RawGemini EXCEPT !.id = <<"gemini">>],
     [RawGemini EXCEPT !.id = <<"google", "broken">>],
     [RawGemini EXCEPT !.id = <<"google", "gemma", "v1">>],
     [RawGemini EXCEPT !.id = <<"google", "down">>]}

\* raw records like RawGpt with other parameter lists and default maps
RawParameterVariants ==
    {[RawGpt EXCEPT !.supported_parameters = v, !.default_parameters = d] :
        v \in SeqsUpTo({"temperature", "bogus", "seed"}, 2),
        d \in {<<>>, [bogus |-> 1], [top_k |-> 40, top_p |-> 9]}}
    \cup {Without([RawGpt EXCEPT !.supported_parameters = <<"bogus", "seed", "nope">>],
                  "default_parameters")}

\* the listings the models API can answer with; the last one names a
\* supported parameter twice
Listings ==
    SeqsUpTo(RawRecords, MaxListing) \cup {<<r>> : r \in RawParameterVariants}
    \cup {<<[RawGemini EXCEPT !.supported_parameters = <<"top_k", "top_k">>]>>}

\* the raw record yields a candidate: parse_openrouter_model and
\* fetch_model_endpoints both return an object
YieldsCandidate(raw) == ParsesAsModel(raw) /\ HasCandidate([id |-> raw.id])

\* fetch_openrouter_models(use_cache=False): the listing arrives and is parsed
FetchListing ==
    /\ pc = "fetch"
    /\ listing' \in Listings
    /\ raw_models' = ParseAll(listing')
    /\ pc' = "fetch_endpoints"
    /\ UNCHANGED <<db, session, frame, models, zdr_lookup, insertLocals, result, repeat,
                   runLocals, summary, resolverVars, gather, config>>

\* fetch_all_endpoints_parallel and fetch_zdr_endpoints
FetchEndpoints ==
    /\ pc = "fetch_endpoints"
    /\ models' = fetch_all_endpoints_parallel(raw_models)
    /\ zdr_lookup' \in ZdrLookups
    /\ pc' = After("fetch")
    /\ UNCHANGED <<db, session, frame, insertLocals, result, repeat, runLocals, summary,
                   resolverVars, fetchVars, config>>

\* a run starts on an empty database or on one that holds google/gemini with
\* an empty display_name
InitFetch ==
    /\ db \in {EmptyStore} \cup {LegacyStore(m) : m \in ModelVariants({""}, {"d"}, {8})}
    /\ session = NewSession(db)
    /\ pc = "idle"
    /\ NoLocals
    /\ config \in Configs
    /\ now = 0
    /\ ep_in = EpGpt
    /\ zdr_in = <<>>
    /\ endpoint_pricing = ModelEndpointPricingRow(None, EpGpt, <<>>)

NextFetch ==
    \/ StartRun
    \/ FetchListing
    \/ FetchFail
    \/ FetchEndpoints
    \/ RecordSyncMetadata
    \/ UpdatePass
    \/ BulkInsertBegin
    \/ InsertModel
    \/ InsertCommit
    \/ Finish

SpecFetch == InitFetch /\ [][NextFetch]_vars

(***************************************************************************)
(* Step 5 of main_async applied twice to the same candidates               *)
(***************************************************************************)
\* "if updated_count > 0: await session.commit()" after the loop left acc:
\* the committed store and whether the call returned (ok) or raised
CommitPass(acc, c, store) ==
    IF acc.n > 0 THEN [ok |-> c.ok, store |-> IF c.ok THEN c.tx ELSE store]
    ELSE [ok |-> acc.s.ok, store |-> store]

CommitOf(acc, store) == CommitPass(acc, Flush(acc.s), store)

\* one update_existing_* call on the committed store
PassResult(fn, store, ms, z) ==
    CommitOf(PassLoop(fn, [s |-> NewSession(store), n |-> 0], ms, z), store)

\* the calls fns of step 5 one after the other, from the outcome r of the
\* calls before them; a call that raises ends the run
RECURSIVE UpdateAll(_, _, _, _)
UpdateAll(fns, r, ms, z) ==
    IF fns = <<>> \/ ~r.ok THEN r
    ELSE UpdateAll(Tail(fns), PassResult(fns[1], r.store, ms, z), ms, z)

\* the candidates of such a run: those of the single passes, those that match
\* no stored row, and one that differs from the stored Model in every table
RerunCandidates ==
    UNION {Incoming(fn) : fn \in UpdateFns} \cup Unmatched
    \cup {[GeminiEp EXCEPT
              !.name = "Foo", !.context_length = 16,
              !.pricing.prompt = "7", !.pricing.web_search = "7",
              !.architecture.instruct_type = "chat",
              !.architecture.input_modalities = <<"text", "image">>,
              !.top_provider.max_completion_tokens = 8,
              !.supported_parameters = <<"temperature", "top_k">>,
              !.default_parameters = [temperature |-> 5, top_p |-> 9],
              !.providers = <<[EpGemini EXCEPT !.status = 1, !.max_prompt_tokens = 8,
                                               !.pricing = [prompt_cost |-> "3"]]>>]}

\* the ZDR lookups of such a run
RerunZdr ==
    ZdrLookups \cup
    {[k \in {ZdrKey(EpGemini)} |->
         ZDREndpointPricing([completion_cost |-> "0.7", image_output_cost |-> "0.5"])]}

CallUpdateAll ==
    /\ pc = "idle"
    /\ \E m \in RerunCandidates, z \in RerunZdr :
          /\ models' = <<m>>
          /\ zdr_lookup' = z
    /\ pc' = "update_all"
    /\ UNCHANGED <<db, session, frame, insertLocals, result, repeat, summary, runLocals,
                   resolverVars, fetchVars, config>>

\* lines 203-231 run on the committed store, the first time and then again
\* with the same candidates and the same ZDR lookup
ApplyUpdateAll ==
    /\ pc \in {"update_all", "update_all_again"}
    /\ LET r == UpdateAll(SubSeq(MainOrder, 3, 11), [ok |-> TRUE, store |-> db],
                          models, zdr_lookup)
       IN  /\ db' = r.store
           /\ session' = NewSession(r.store)
           /\ result' = [kind |-> IF r.ok THEN "return" ELSE "raise",
                         fn |-> "update_all", value |-> <<>>]
    /\ pc' = IF pc = "update_all" THEN "update_all_again" ELSE "end"
    /\ UNCHANGED <<frame, models, zdr_lookup, insertLocals, repeat, summary, runLocals,
                   resolverVars, fetchVars, config>>

NextRerun ==
    \/ CallUpdateAll
    \/ ApplyUpdateAll

SpecRerun == InitUpdate /\ [][NextRerun]_vars

(***************************************************************************)
(* fetch_all_endpoints_parallel as concurrent tasks                        *)
(***************************************************************************)
\* asyncio.gather(*[fetch_model_endpoints(client, model, use_cache) ...]):
\* one task per model is scheduled
GatherStart ==
    /\ pc = "fetch_endpoints"
    /\ pc' = "gather"
    /\ gather' = [tasks |-> [k \in DOMAIN raw_models |->
                                [st |-> "pending", http |-> "none", value |-> <<>>]],
                  done |-> <<>>]
    /\ UNCHANGED <<db, session, frame, models, zdr_lookup, insertLocals, result, repeat,
                   runLocals, summary, resolverVars, listing, raw_models, config>>

\* task k runs up to "await client.get(url)"
TaskRequest(k) ==
    /\ pc = "gather"
    /\ gather.tasks[k].st = "pending"
    /\ gather' = [gather EXCEPT !.tasks[k].st = "waiting"]
    /\ UNCHANGED <<db, session, frame, models, zdr_lookup, insertLocals, result, repeat,
                   runLocals, summary, resolverVars, listing, raw_models, pc, config>>

\* the response of task k arrives, or its request fails; the task runs to its
\* return statement: the candidate, or None after an HTTP error, an endpoint
\* that does not parse or an id without author and model name
TaskRespond(k) ==
    /\ pc = "gather"
    /\ gather.tasks[k].st = "waiting"
    /\ \E http \in {"ok", "error"} :
          /\ "error" \in DOMAIN EndpointsResponse(raw_models[k].id) => http = "error"
          /\ gather' =
                [tasks |-> [gather.tasks EXCEPT ![k] =
                               [st |-> "done", http |-> http,
                                value |-> IF http = "ok" /\ HasCandidate(raw_models[k])
                                          THEN <<OpenRouterModelWithEndpoints(raw_models[k])>>
                                          ELSE <<>>]],
                 done |-> Append(gather.done, k)]
    /\ UNCHANGED <<db, session, frame, models, zdr_lookup, insertLocals, result, repeat,
                   runLocals, summary, resolverVars, listing, raw_models, pc, config>>

\* the values of the tasks named by the index list order, None left out
RECURSIVE Gathered(_, _)
Gathered(tasks, order) ==
    IF order = <<>> THEN <<>>
    ELSE tasks[order[1]].value \o Gathered(tasks, Tail(order))

\* a gather that hands the results over in the order of completion
GatherReturnCompletionOrder ==
    /\ pc = "gather"
    /\ \A k \in DOMAIN gather.tasks : gather.tasks[k].st = "done"
    /\ models' = Gathered(gather.tasks, gather.done)
    /\ zdr_lookup' \in ZdrLookups
    /\ pc' = After("fetch")
    /\ UNCHANGED <<db, session, frame, insertLocals, result, repeat, runLocals, summary,
                   resolverVars, fetchVars, config>>

\* every task is done: gather returns the results in the order of its
\* arguments, and the None values are filtered out
GatherReturn ==
    /\ pc = "gather"
    /\ \A k \in DOMAIN gather.tasks : gather.tasks[k].st = "done"
    /\ models' = Gathered(gather.tasks, [k \in DOMAIN gather.tasks |-> k])
    /\ zdr_lookup' \in ZdrLookups
    /\ pc' = After("fetch")
    /\ UNCHANGED <<db, session, frame, insertLocals, result, repeat, runLocals, summary,
                   resolverVars, fetchVars, config>>

InitGather == InitCommon

NextGather ==
    \/ StartRun
    \/ FetchListing
    \/ FetchFail
    \/ GatherStart
    \/ \E k \in DOMAIN gather.tasks : TaskRequest(k)
    \/ \E k \in DOMAIN gather.tasks : TaskRespond(k)
    \/ GatherReturn

SpecGather == InitGather /\ [][NextGather]_vars

(***************************************************************************)
(* Properties                                                              *)
(***************************************************************************)
\* bulk_insert_models has returned (lines 52, 222) and its outcome is visible
InsertReturned == result.fn = "insert" /\ result.kind = "return"

\* candidate m has its Model row and every child row in store
HasSubgraph(store, m) ==
    \E r \in store.models :
        /\ r.author = m.author /\ r.model_name = m.model_name
        /\ RowsOf(store, "pricing", r.id) # {}
        /\ RowsOf(store, "top_provider", r.id) # {}
        /\ \E a \in RowsOf(store, "architecture", r.id) :
              \A k \in DOMAIN m.architecture.input_modalities :
                  \E x \in store.modalities :
                      /\ x.architecture_id = a.id /\ x.modality_type = "input"
                      /\ x.modality_value = m.architecture.input_modalities[k]
        /\ \A k \in DOMAIN m.supported_parameters :
              \E x \in RowsOf(store, "supported_parameters", r.id) :
                  x.parameter_name = m.supported_parameters[k]

\* the Model rows of store that this batch added
AddedModels(store) == {r \in store.models : <<r.author, r.model_name>> \notin existing}

\* C1: when bulk_insert_models returns, every new candidate of the batch whose
\* iteration ended without an exception (it was not logged as failed) has its
\* Model row and its children in the committed store, whether it came before
\* or after a failing candidate.
C1_Isolation ==
    InsertReturned =>
        \A k \in 1..Len(new_models) : k \notin failed => HasSubgraph(db, new_models[k])

\* C2: the insertedCount that bulk_insert_models returns equals the number of
\* Model rows the batch added to the committed store.
C2_InsertedCountIsRows ==
    InsertReturned => result.value[1] = Cardinality(AddedModels(db))

\* C3: a second bulk_insert_models run with identical input returns
\* insertedCount = 0 and classifies every candidate as existing.
C3_Idempotent ==
    (InsertReturned /\ repeat) => result.value = <<0, Len(models)>>

\* C4: a batch of two candidates with the same new (author, model_name) ends
\* with exactly one committed Model row for the key, insertedCount = 1 and
\* skippedCount = 1.
C4_DuplicateKeyInBatch ==
    (/\ InsertReturned
     /\ Len(models) = 2
     /\ Key(models[1]) = Key(models[2])
     /\ Key(models[1]) \notin existing)
    => /\ Cardinality({r \in db.models : <<r.author, r.model_name>> = Key(models[1])}) = 1
       /\ result.value = <<1, 1>>

\* the tables whose natural key C5 names
KeyedTables == Tables \ {"sync_metadata", "endpoint_pricing"}

\* C5: in every committed store state natural keys are unique: no two rows of
\* a table share the columns of its unique constraint (Model, Endpoint,
\* SupportedParameter, Modality, and the one-to-one children of a Model).
C5_NaturalKeysUnique ==
    \A t \in KeyedTables : \A r1, r2 \in db[t] : UKey(t, r1) = UKey(t, r2) => r1 = r2

\* C5 witness: a batch that repeated a key has returned and left committed rows
C5_Witness ==
    /\ InsertReturned
    /\ \E j, k \in 1..Len(models) : j < k /\ Key(models[j]) = Key(models[k])
    /\ db.models # {}
    /\ db.supported_parameters # {}

SyncTypes == {"openrouter_models", "zdr_endpoints"}

\* the counts a run records for a category
RunCount(sync_type, r) ==
    IF sync_type = "openrouter_models" THEN r.models_count = Len(models)
    ELSE r.zdr_endpoints_count = Cardinality(DOMAIN zdr_lookup)

\* C6: recording is an upsert by category: once a syncing run has executed the
\* recording step, sync_metadata holds exactly one row per sync_type and that
\* row carries the timestamp and the counts of this run; the step neither adds
\* a second row nor fails.
C6_UpsertByCategory ==
    (result.fn = "record" /\ result.kind \in {"return", "raise"}) =>
        \A st \in SyncTypes :
            LET rows == {r \in db.sync_metadata : r.sync_type = st}
            IN  /\ Cardinality(rows) = 1
                /\ \A r \in rows : r.last_sync_at = now /\ RunCount(st, r)

\* C7: a run that the gate let through and whose fetches succeeded leaves the
\* category fresh: when the run has ended (completed, or stopped by an
\* exception) should_sync for the category is false.
C7_SyncedRunLeavesFresh ==
    (/\ frame = "main_async" /\ should_sync_models /\ pc = "end"
     /\ result.kind \in {"done", "raise"})
    => ~should_sync(db, "openrouter_models", MaxAgeHours, now)

\* C8: SyncMetadata is written only after the reconciliation of the run (update
\* path and insert path) has completed: a step that changes the sync_metadata
\* table is taken with the insert path's result already assigned.
C8_MetadataAfterReconciliation ==
    [][db'.sync_metadata # db.sync_metadata => summary["inserted"] # None]_vars

InsertPcs == {"insert", "insert_loop", "insert_commit"}

\* C9 as stated: the update path runs after the insert path, so whenever an
\* update pass is about to run the insert path of this run has returned.
C9_UpdateAfterInsert == pc \in UpdateFns => summary["inserted"] # None

\* the candidates of the run whose key was in the store when the insert path
\* loaded the existing keys
ExistingCandidates == {k \in 1..Len(models) : Key(models[k]) \in existing}

\* C9 amended: the update path runs before the insert path: while an update
\* pass is due the insert path has not run, when the insert path runs all nine
\* passes have returned, and the top-provider pass (which counts every
\* candidate it is applied to) has counted only candidates whose Model was in
\* the store before this run's inserts, none of the Models inserted by the run.
C9_UpdateBeforeInsert ==
    /\ pc \in UpdateFns => summary["inserted"] = None
    /\ (frame = "main_async" /\ pc \in InsertPcs) => \A f \in UpdateFns : summary[f] # None
    /\ (frame = "main_async" /\ result.kind = "done") =>
          summary["update_top_provider"] = Cardinality(ExistingCandidates)

\* C9 witness: a completed run that inserted a Model and updated none
C9_Witness ==
    /\ frame = "main_async"
    /\ result.kind = "done"
    /\ summary["inserted"] > 0
    /\ summary["update_top_provider"] = 0
    /\ db.top_provider # {}

\* the endpoint's own value that corresponds to a resolved field
EndpointNative(ep, f) ==
    CASE f = "prompt_cost" -> Get(ep.pricing, "prompt", "0")
      [] f = "completion_cost" -> Get(ep.pricing, "completion", "0")
      [] f = "request_cost" -> Get(ep.pricing, "request", "0")
      [] f = "image_cost" -> Get(ep.pricing, "image", "0")
      [] OTHER -> "0"

\* C10: with a matching ZDR entry each of the ten resolved fields is the ZDR
\* value when that value is present and non-default ("0"), and otherwise the
\* endpoint's own corresponding value, or "0" for the ZDR-only fields.
C10_ZdrPerFieldFallback ==
    (pc = "resolved" /\ ZdrKey(ep_in) \in DOMAIN zdr_in) =>
        \A f \in ZDRPricingFields :
            endpoint_pricing[f] =
                IF zdr_in[ZdrKey(ep_in)][f] # "0" THEN zdr_in[ZdrKey(ep_in)][f]
                ELSE EndpointNative(ep_in, f)

\* an absent incoming value read as the column default
OrDefault(x) == IF x = NoneStr THEN "0" ELSE x

\* C11: for the same endpoint candidate and the same ZDR lookup the update
\* path derives, for every EndpointPricing field, the same incoming value as
\* the insert path resolved.
C11_SameIncomingValue ==
    pc = "resolved" =>
        \A f \in ZDRPricingFields :
            OrDefault(IncomingCost(ep_in, zdr_in, f)) = endpoint_pricing[f]

\* the stored Model row of the candidate a pass is about to process
IsTarget(fn, r) ==
    /\ pc = fn
    /\ models # <<>>
    /\ Key(models[1]) = <<r.author, r.model_name>>

\* C12: fill-if-empty for Model.display_name, description and context_length:
\* a step of update_existing_llm_models leaves in each of the three fields the
\* incoming value if the stored value is null/empty/zero and the incoming value
\* is non-empty, and the stored value otherwise; no other step changes them.
C12_ModelFillIfEmpty ==
    [][\A r \in db.models : \E r2 \in db'.models :
          /\ r2.id = r.id
          /\ IF IsTarget("update_llm_models", r) /\ result'.kind = "return"
             THEN LET m == models[1]
                  IN  /\ r2.display_name =
                            IF r.display_name \in {NoneStr, ""} /\ m.name \notin {NoneStr, ""}
                            THEN m.name ELSE r.display_name
                      /\ r2.description =
                            IF r.description \in {NoneStr, ""}
                               /\ m.description \notin {NoneStr, ""}
                            THEN m.description ELSE r.description
                      /\ r2.context_length =
                            IF r.context_length \in {None, 0}
                               /\ m.context_length \notin {None, 0}
                            THEN m.context_length ELSE r.context_length
             ELSE /\ r2.display_name = r.display_name
                  /\ r2.description = r.description
                  /\ r2.context_length = r.context_length]_vars

\* C12 witness: a pass with incoming name "Foo" has returned; the stored
\* display_name "Bar" is still there and the empty description was filled
C12_Witness ==
    /\ result.fn = "update_llm_models"
    /\ result.kind = "return"
    /\ models # <<>>
    /\ models[1].name = "Foo"
    /\ \E r \in db.models : r.display_name = "Bar" /\ r.description = "e"

\* the stored Endpoint row e is the one the candidate's endpoint ep names
IsTargetEndpoint(fn, e) ==
    /\ pc = fn
    /\ models # <<>>
    /\ models[1].providers # <<>>
    /\ LET ep == models[1].providers[1]
       IN  /\ e.name = ep.name /\ e.provider_name = ep.provider_name /\ e.tag = ep.tag
           /\ \E r \in db.models : r.id = e.model_id /\ IsTarget(fn, r)

\* C13: EndpointPricing is fill-if-empty with the ZDR-preferred value: a step
\* of update_existing_endpoint_pricing for an existing endpoint that has a ZDR
\* entry fills every stored price field that is empty (null, empty or "0") with
\* the ZDR entry's price, and no step of any run changes a stored price field
\* that holds a non-empty, non-"0" value.
C13_EndpointPricingFillIfEmpty ==
    [][\A p \in db.endpoint_pricing : \E p2 \in db'.endpoint_pricing :
          /\ p2.id = p.id
          /\ p2.endpoint_id = p.endpoint_id
          /\ \A f \in ZDRPricingFields :
                IF p[f] \notin {NoneStr, "", "0"} THEN p2[f] = p[f]
                ELSE (/\ result'.kind = "return"
                      /\ \E e \in db.endpoints :
                            /\ e.id = p.endpoint_id
                            /\ IsTargetEndpoint("update_endpoint_pricing", e)
                      /\ ZdrKey(models[1].providers[1]) \in DOMAIN zdr_lookup)
                     => p2[f] = zdr_lookup[ZdrKey(models[1].providers[1])][f]]_vars

\* C13 witness: a run whose ZDR entry offers other prices has returned; the
\* price stored at insertion and the price an earlier run took from ZDR are
\* both still there
C13_Witness ==
    /\ result.fn = "update_endpoint_pricing"
    /\ result.kind = "return"
    /\ \E k \in DOMAIN zdr_lookup :
          /\ zdr_lookup[k].prompt_cost = "0.7"
          /\ zdr_lookup[k].image_output_cost = "0.7"
    /\ \E p \in db.endpoint_pricing :
          /\ p.prompt_cost = "1"
          /\ p.image_output_cost = "0.5"
          /\ p.completion_cost = "0"

\* C14: always-refresh for endpoints: when update_existing_endpoints has
\* processed a candidate endpoint whose Endpoint row exists, the committed
\* row's status and supports_implicit_caching are the incoming values and
\* is_zdr is "true" iff the endpoint's (provider_name, model_name, tag) is a
\* key of this run's ZDR lookup, whatever was stored before.
C14_EndpointAlwaysRefresh ==
    [][\A e \in db.endpoints :
          (IsTargetEndpoint("update_endpoints", e) /\ result'.kind = "return") =>
              \E e2 \in db'.endpoints :
                  LET ep == models[1].providers[1]
                  IN  /\ e2.id = e.id
                      /\ e2.status = ep.status
                      /\ e2.supports_implicit_caching =
                            (IF ep.supports_implicit_caching THEN "true" ELSE "false")
                      /\ e2.is_zdr = "true" <=>
                            <<ep.provider_name, ep.model_name, ep.tag>> \in DOMAIN zdr_lookup
                      /\ e2.is_zdr \in {"true", "false"}]_vars

\* C14 witness: a pass without a ZDR entry and with incoming status 0 has
\* returned on an endpoint an earlier run had marked ZDR; the row shows
\* status 0 and is_zdr "false"
C14_Witness ==
    /\ result.fn = "update_endpoints"
    /\ result.kind = "return"
    /\ zdr_lookup = <<>>
    /\ models[1].providers[1].status = 0
    /\ \E e \in db.endpoints :
          /\ e.status = 0
          /\ e.is_zdr = "false"
          /\ e.supports_implicit_caching = "false"
          /\ e.max_prompt_tokens = 8

\* the stored TopProvider row of the Model row r
TopProviderOf(store, r) == {t \in store.top_provider : t.model_id = r.id}

\* C15: always-refresh for TopProvider: for a candidate with a stored
\* TopProvider row, update_existing_top_provider overwrites context_length and
\* max_completion_tokens with the incoming value when that is not null, leaves
\* the stored value when it is null, and always sets is_moderated to the
\* incoming value.
C15_TopProviderAlwaysRefresh ==
    [][\A r \in db.models : \A t \in TopProviderOf(db, r) :
          (IsTarget("update_top_provider", r) /\ result'.kind = "return") =>
              \E t2 \in TopProviderOf(db', r) :
                  LET tp == models[1].top_provider
                  IN  /\ t2.id = t.id
                      /\ t2.context_length =
                            IF tp.context_length # None THEN tp.context_length
                            ELSE t.context_length
                      /\ t2.max_completion_tokens =
                            IF tp.max_completion_tokens # None THEN tp.max_completion_tokens
                            ELSE t.max_completion_tokens
                      /\ t2.is_moderated = (IF tp.is_moderated THEN "true" ELSE "false")]_vars

\* C15 witness: a pass with incoming context_length null, max_completion_tokens
\* 0 and is_moderated false has returned: the stored context_length 8 is kept,
\* max_completion_tokens is 0 and is_moderated is "false"
C15_Witness ==
    /\ result.fn = "update_top_provider"
    /\ result.kind = "return"
    /\ models[1].top_provider =
          [context_length |-> None, max_completion_tokens |-> 0, is_moderated |-> FALSE]
    /\ \E t \in db.top_provider :
          /\ t.context_length = 8
          /\ t.max_completion_tokens = 0
          /\ t.is_moderated = "false"

\* the stored cost column that takes each field of the Pricing block
PricingColumns ==
    [prompt |-> "prompt_cost", completion |-> "completion_cost",
     request |-> "request_cost", image |-> "image_cost",
     web_search |-> "web_search_cost",
     internal_reasoning |-> "internal_reasoning_cost"]

\* C19: Model Pricing is fill-if-empty independently per field: a step of
\* update_existing_model_pricing leaves in each of the six cost fields the
\* incoming value if the stored value of that field is empty (null, empty or
\* "0") and the incoming value is non-empty, and the stored value otherwise,
\* whatever the other fields hold; no other step changes a cost.
C19_ModelPricingFillIfEmpty ==
    [][\A r \in db.models : \A p \in {x \in db.pricing : x.model_id = r.id} :
          \E p2 \in db'.pricing :
              /\ p2.id = p.id
              /\ p2.model_id = p.model_id
              /\ \A k \in DOMAIN PricingColumns :
                    LET c == PricingColumns[k]
                    IN  IF /\ IsTarget("update_model_pricing", r)
                           /\ result'.kind = "return"
                           /\ p[c] \in {NoneStr, "", "0"}
                           /\ models[1].pricing[k] \notin {NoneStr, ""}
                        THEN p2[c] = models[1].pricing[k]
                        ELSE p2[c] = p[c]]_vars

\* C19 witness: a pass with incoming prompt "7" and completion "7" has
\* returned; the stored prompt cost "5" is kept and the completion cost, stored
\* as "0", is now "7"
C19_Witness ==
    /\ result.fn = "update_model_pricing"
    /\ result.kind = "return"
    /\ models[1].pricing.prompt = "7"
    /\ models[1].pricing.completion = "7"
    /\ \E p \in db.pricing : p.prompt_cost = "5" /\ p.completion_cost = "7"

\* C20: Endpoint.context_length, quantization, max_completion_tokens and
\* max_prompt_tokens are fill-if-empty: a step of update_existing_endpoints
\* leaves in each of them the incoming value if the stored value is
\* null/empty/zero (a stored 0 is empty for the integer fields) and the
\* incoming value is non-empty, and the stored value otherwise.
C20_EndpointFillIfEmpty ==
    [][\A e \in db.endpoints :
          (IsTargetEndpoint("update_endpoints", e) /\ result'.kind = "return") =>
              \E e2 \in db'.endpoints :
                  LET ep == models[1].providers[1]
                      fill(old, inc) ==
                          IF old \in {None, 0} /\ inc \notin {None, 0} THEN inc ELSE old
                  IN  /\ e2.id = e.id
                      /\ e2.context_length = fill(e.context_length, ep.context_length)
                      /\ e2.quantization =
                            IF e.quantization \in {NoneStr, ""}
                               /\ ep.quantization \notin {NoneStr, ""}
                            THEN ep.quantization ELSE e.quantization
                      /\ e2.max_completion_tokens =
                            fill(e.max_completion_tokens, ep.max_completion_tokens)
                      /\ e2.max_prompt_tokens =
                            fill(e.max_prompt_tokens, ep.max_prompt_tokens)]_vars

\* the SyncMetadata rows of the models category
ModelSyncRows(store) == {r \in store.sync_metadata : r.sync_type = "openrouter_models"}

\* C16: the freshness gate: a run without force flag syncs when no SyncMetadata
\* row exists for the category, and otherwise iff now - last_sync_at >=
\* maxAgeHours (the boundary included); evaluating the gate leaves the store
\* as it is.
C16_FreshnessGate ==
    [][(pc = "idle" /\ frame' = "main_async" /\ ~force_refresh') =>
          /\ should_sync_models' <=>
                \/ ModelSyncRows(db) = {}
                \/ \E r \in ModelSyncRows(db) : now - r.last_sync_at >= MaxAgeHours
          /\ db' = db]_vars

\* C16 witness: a run without force flag passed the gate with the last sync
\* exactly maxAgeHours old
C16_Witness ==
    /\ frame = "main_async"
    /\ ~force_refresh
    /\ should_sync_models
    /\ pc = "fetch"
    /\ \E r \in ModelSyncRows(db) : now - r.last_sync_at = MaxAgeHours

\* C17: with the force flag set a run takes the sync branch whatever the age
\* of the last recorded sync.
C17_ForceTakesSyncBranch ==
    [][(pc = "idle" /\ frame' = "main_async" /\ force_refresh') =>
          (should_sync_models' /\ pc' = "fetch")]_vars

\* C17 witness: a forced run has fetched although the category was synced
\* less than maxAgeHours ago
C17_Witness ==
    /\ frame = "main_async"
    /\ force_refresh
    /\ pc = "record"
    /\ models # <<>>
    /\ \E r \in ModelSyncRows(db) : now - r.last_sync_at < MaxAgeHours

\* C18: the skipped count of bulk_insert_models is the number of candidates
\* whose key was in the store before the batch began, and a candidate whose
\* insertion failed is counted neither as inserted nor as skipped:
\* inserted + skipped + failed = number of candidates.
C18_SkippedCount ==
    /\ [][pc = "insert" =>
             skipped' = Cardinality({k \in 1..Len(models) :
                            \E r \in db.models : <<r.author, r.model_name>> = Key(models[k])})
         ]_vars
    /\ [](InsertReturned =>
             /\ result.value[2] = skipped
             /\ result.value[1] + result.value[2] + Cardinality(failed) = Len(models))

\* C18 witness: a batch with one candidate already stored, one inserted and
\* one failed has returned
C18_Witness ==
    /\ InsertReturned
    /\ result.value = <<1, 1>>
    /\ Cardinality(failed) = 1
    /\ Len(models) = 3

\* the (type, value) pairs stored for the architecture of the Model with key k
ModalityPairs(store, k) ==
    {<<x.modality_type, x.modality_value>> :
        x \in {y \in store.modalities :
                  \E r \in store.models, a \in store.architecture :
                      /\ <<r.author, r.model_name>> = k
                      /\ a.model_id = r.id
                      /\ y.architecture_id = a.id}}

\* the (type, value) pairs of a candidate's architecture
IncomingModalityPairs(m) ==
    {<<"input", v>> : v \in Range(m.architecture.input_modalities)}
    \cup {<<"output", v>> : v \in Range(m.architecture.output_modalities)}

\* C21: architecture modalities are additive only: a step of
\* update_existing_architecture_modalities on a stored candidate returns and
\* leaves as the stored set of (type, value) pairs the previous set united with
\* the incoming input/output pairs, also when an incoming list repeats a
\* value; no step of any pass removes a stored modality row.
C21_ModalitiesAdditive ==
    [][/\ db.modalities \subseteq db'.modalities
       /\ (pc = "update_architecture_modalities" /\ models # <<>>) =>
              LET m == models[1]
              IN  /\ result'.kind = "return"
                  /\ ModalityPairs(db', Key(m)) =
                         ModalityPairs(db, Key(m)) \cup IncomingModalityPairs(m)]_vars

\* the parameter names recorded for the Model with key k
ParameterNames(store, k) ==
    {x.parameter_name :
        x \in {y \in store.supported_parameters :
                  \E r \in store.models :
                      <<r.author, r.model_name>> = k /\ y.model_id = r.id}}

\* C22: SupportedParameter is additive only and whitelist-checked: a step of
\* update_existing_supported_parameters on a stored candidate returns and
\* leaves as recorded names the previous names united with the incoming names
\* that are in the whitelist; no step removes a SupportedParameter row; every
\* stored parameter_name is in the whitelist.
C22_SupportedParametersAdditive ==
    /\ [][/\ db.supported_parameters \subseteq db'.supported_parameters
          /\ (pc = "update_supported_parameters" /\ models # <<>>) =>
                 LET m == models[1]
                 IN  /\ result'.kind = "return"
                     /\ ParameterNames(db', Key(m)) =
                            ParameterNames(db, Key(m))
                            \cup (Range(m.supported_parameters) \cap SUPPORTED_PARAMETERS)
         ]_vars
    /\ [](\A r \in db.supported_parameters : r.parameter_name \in SUPPORTED_PARAMETERS)

\* the entries of a parameter map whose value is not null; the document is an
\* optional-field structure, in which a null field and an absent field are the same
NonNull(d) == [k \in {x \in DOMAIN d : d[x] # None} |-> d[k]]

C24_DefaultKeysWhitelisted ==
    /\ \A r \in db.default_parameters : DOMAIN r.parameters \subseteq DEFAULT_PARAMETERS
    /\ DEFAULT_PARAMETERS \subseteq SUPPORTED_PARAMETERS

\* C24 witness: a run has completed and the store holds the document of a
\* candidate whose raw record carried the key bogus
C24_Witness ==
    /\ result.kind = "done"
    /\ \E r \in db.default_parameters : r.parameters = [temperature |-> 7]

\* C25: without a matching ZDR entry, the EndpointPricing built for a new
\* endpoint takes prompt, completion, request and image cost from the
\* endpoint's own pricing block, "0" for each of them the block lacks, and "0"
\* for the six ZDR-only fields.
C25_NativePricingDefaults ==
    (pc = "resolved" /\ ZdrKey(ep_in) \notin DOMAIN zdr_in) =>
        LET native(k) == IF k \in DOMAIN ep_in.pricing THEN ep_in.pricing[k] ELSE "0"
        IN  /\ endpoint_pricing.prompt_cost = native("prompt")
            /\ endpoint_pricing.completion_cost = native("completion")
            /\ endpoint_pricing.request_cost = native("request")
            /\ endpoint_pricing.image_cost = native("image")
            /\ \A f \in ZDRPricingFields \ {"prompt_cost", "completion_cost",
                                              "request_cost", "image_cost"} :
                  endpoint_pricing[f] = "0"

\* C25 witness: no ZDR entry, a block with prompt and image only: the row has
\* the block's prompt and image and "0" for completion
C25_Witness ==
    /\ pc = "resolved"
    /\ zdr_in = <<>>
    /\ DOMAIN ep_in.pricing = {"prompt", "image"}
    /\ endpoint_pricing.prompt_cost = "1"
    /\ endpoint_pricing.image_cost = "1"
    /\ endpoint_pricing.completion_cost = "0"

\* the fetches of the run are over: models holds the candidates
Fetched == frame = "main_async" /\ pc \notin {"idle", "fetch", "fetch_endpoints"}
                                /\ result.kind # "exit"

\* C26: normalization never fails on whitelist violations: every raw record
\* whose required fields parse yields a candidate, whatever its parameter
\* names and default-parameter keys are; the candidate's supported_parameters
\* is the raw list without the names outside the whitelist, in the same order,
\* and its default_parameters is the raw map restricted to whitelisted keys.
C26_NormalizationFilters ==
    Fetched =>
        LET accepted == SelectSeq(listing, YieldsCandidate)
        IN  /\ Len(models) = Len(accepted)
            /\ \A k \in DOMAIN models :
                  LET raw == accepted[k]
                      d == IF "default_parameters" \in DOMAIN raw
                           THEN raw.default_parameters ELSE <<>>
                  IN  /\ models[k].supported_parameters =
                            SelectSeq(raw.supported_parameters,
                                      LAMBDA x : x \in SUPPORTED_PARAMETERS)
                      /\ models[k].default_parameters =
                            [x \in DOMAIN d \cap DEFAULT_PARAMETERS |-> d[x]]

\* C26 witness: a record with parameters <<"bogus", "seed">> and defaults
\* {bogus: 1} gave a candidate with <<"seed">> and no defaults
C26_Witness ==
    /\ Fetched
    /\ Len(listing) = 1
    /\ listing[1].supported_parameters = <<"bogus", "seed">>
    /\ listing[1].default_parameters = [bogus |-> 1]
    /\ Len(models) = 1
    /\ models[1].supported_parameters = <<"seed">>
    /\ models[1].default_parameters = <<>>

\* the Model row of store that row x of table t belongs to, as a set
OwnerOf(store, t, x) ==
    CASE t = "models" -> {x}
      [] t = "modalities" ->
             {r \in store.models : \E a \in store.architecture :
                                       a.id = x.architecture_id /\ a.model_id = r.id}
      [] t = "endpoint_pricing" ->
             {r \in store.models : \E e \in store.endpoints :
                                       e.id = x.endpoint_id /\ e.model_id = r.id}
      [] OTHER -> {r \in store.models : r.id = x.model_id}

\* C27: a raw record that fails required-field parsing (a missing id or
\* field, a malformed nested structure, an id without author or model name, an
\* endpoint that does not parse) is excluded from the candidate list and the
\* other records of the listing are candidates, in order; every row a step of
\* the run inserts or changes belongs to the Model of a candidate.
C27_FailedRecordsExcluded ==
    /\ [](Fetched =>
             LET good(raw) ==
                     /\ RequiredModelFields \subseteq DOMAIN raw
                     /\ {"prompt", "completion"} \subseteq DOMAIN raw.pricing
                     /\ {"modality", "input_modalities", "output_modalities",
                          "tokenizer"} \subseteq DOMAIN raw.architecture
                     /\ Len(raw.id) >= 2
                     /\ raw.id[1] # ""
                     /\ raw.id[2] # ""
                     /\ LET data == EndpointsResponse(raw.id)
                        IN  /\ "error" \notin DOMAIN data
                            /\ "endpoints" \in DOMAIN data =>
                                   \A k \in DOMAIN data.endpoints :
                                       RequiredEndpointFields \subseteq
                                           DOMAIN data.endpoints[k]
                 kept == SelectSeq(listing, good)
             IN  /\ Len(models) = Len(kept)
                 /\ \A k \in DOMAIN models :
                       /\ models[k].name = kept[k].name
                       /\ kept[k].id \in {<<"OpenAI", "gpt">>, <<"google", "gemini">>} =>
                              Key(models[k]) = IF kept[k].id[1] = "OpenAI"
                                               THEN <<"openai", "gpt">>
                                               ELSE <<"google", "gemini">>)
    /\ [][\A t \in Tables \ {"sync_metadata"} :
             \A x \in db'[t] \ db[t] :
                 \E r \in OwnerOf(db', t, x) :
                     \E k \in DOMAIN models :
                         Key(models[k]) = <<r.author, r.model_name>>]_vars

\* C27 witness: a listing with a gemini record whose pricing block is
\* malformed and the record of openai/gpt; the run is complete, openai/gpt was
\* inserted and the stored google/gemini still has its empty display_name
C27_Witness ==
    /\ result.kind = "done"
    /\ Len(listing) = 2
    /\ listing[1].name = "Gemini"
    /\ DOMAIN listing[1].pricing = {"prompt"}
    /\ models = <<Gpt>>
    /\ \E r \in db.models : r.model_name = "gpt"
    /\ \E r \in db.models : r.model_name = "gemini" /\ r.display_name = ""

\* the lists of the configuration repeat a name, or a default parameter is
\* no supported parameter
BadConfig ==
    \/ \E a, b \in DOMAIN config.supported :
          a # b /\ config.supported[a] = config.supported[b]
    \/ \E a, b \in DOMAIN config.defaults :
          a # b /\ config.defaults[a] = config.defaults[b]
    \/ \E a \in DOMAIN config.defaults :
          \A b \in DOMAIN config.supported : config.defaults[a] # config.supported[b]

\* C28: the check that the default-parameter list is a subset of the
\* supported-parameter list, and that neither list repeats a name, is the first
\* thing a process does: when it fails, the run ends with an error at its
\* first step, no listing is fetched, no candidate exists, the gate is not
\* evaluated and the store never changes.
C28_ConstantsCheckedFirst ==
    /\ [][BadConfig => /\ pc = "idle"
                       /\ pc' = "end"
                       /\ result'.kind = "raise"
                       /\ db' = db
                       /\ session' = session
                       /\ should_sync_models' = should_sync_models]_vars
    /\ [](BadConfig => /\ pc \in {"idle", "end"}
                       /\ listing = <<>>
                       /\ raw_models = <<>>
                       /\ models = <<>>
                       /\ db.sync_metadata = {})

\* C28 witness: a process built with a default parameter that is no supported
\* parameter has ended with the error of the check
C28_Witness ==
    /\ pc = "end"
    /\ result.kind = "raise"
    /\ result.fn = "validate_parameter_constants"
    /\ \E a \in DOMAIN config.defaults : config.defaults[a] = "max_new_tokens"
    /\ listing = <<>>

\* C29: when the bulk model listing cannot be fetched the run ends there,
\* before any reconciliation: the step leaves the store as it was (no Model
\* or child row inserted or updated, no SyncMetadata recorded), the run has no
\* candidates, and a category that was due when the run began is still due.
C29_FetchFailureAborts ==
    /\ [][(pc = "fetch" /\ result'.kind = "exit") =>
             /\ pc' = "end"
             /\ db' = db
             /\ session' = session]_vars
    /\ [](result.kind = "exit" =>
             /\ pc = "end"
             /\ models = <<>>
             /\ ~force_refresh =>
                    \A r \in ModelSyncRows(db) : now - r.last_sync_at >= MaxAgeHours)

\* C29 witness: an earlier run stored a model and recorded its sync; the
\* listing fetch of a later, unforced run failed
C29_Witness ==
    /\ result.kind = "exit"
    /\ ~force_refresh
    /\ db.models # {}
    /\ ModelSyncRows(db) # {}

\* C30: when bulk_insert_models returns, every new candidate with one or more
\* endpoints was inserted (its iteration raised nothing), its Model row and
\* child rows are in the store, and for each of its endpoints the store holds
\* an Endpoint row whose model_id is the id of the new Model, with an
\* EndpointPricing row attached to it.
C30_EndpointsAttachedToModel ==
    InsertReturned =>
        \A k \in DOMAIN new_models :
            LET m == new_models[k]
            IN  m.providers # <<>> =>
                    /\ k \notin failed
                    /\ HasSubgraph(db, m)
                    /\ \A j \in DOMAIN m.providers :
                          \E r \in db.models, e \in db.endpoints :
                              /\ <<r.author, r.model_name>> = Key(m)
                              /\ e.model_id = r.id
                              /\ e.name = m.providers[j].name
                              /\ e.provider_name = m.providers[j].provider_name
                              /\ e.tag = m.providers[j].tag
                              /\ \E q \in db.endpoint_pricing : q.endpoint_id = e.id

\* the entries of a candidate's endpoint list that repeat an earlier entry's
\* natural key (name, provider_name, tag)
RepeatedEntries(m) ==
    {j \in DOMAIN m.providers :
        \E h \in 1..(j - 1) :
            /\ m.providers[h].name = m.providers[j].name
            /\ m.providers[h].provider_name = m.providers[j].provider_name
            /\ m.providers[h].tag = m.providers[j].tag}

\* C31: when bulk_insert_models returns, every new candidate whose endpoint
\* list repeats a natural key was inserted without error, and for each
\* repeated key the store holds exactly one Endpoint row of the new Model and
\* exactly one EndpointPricing row of that Endpoint.
C31_RepeatedEndpointReused ==
    InsertReturned =>
        \A k \in DOMAIN new_models :
            LET m == new_models[k]
            IN  RepeatedEntries(m) # {} =>
                    /\ k \notin failed
                    /\ \A j \in RepeatedEntries(m) :
                          LET rows == EndpointsOf(db, ModelIdOf(db, m), m.providers[j])
                          IN  /\ Cardinality(rows) = 1
                              /\ \A e \in rows :
                                    Cardinality({q \in db.endpoint_pricing :
                                                    q.endpoint_id = e.id}) = 1

\* the tables whose rows carry the model_id of their Model
ModelChildTables ==
    {"pricing", "architecture", "top_provider", "endpoints", "supported_parameters",
     "default_parameters"}

\* row r of table t refers to a parent row that store holds
ParentIn(store, t, r) ==
    CASE t \in ModelChildTables -> \E m \in store.models : m.id = r.model_id
      [] t = "modalities" -> \E a \in store.architecture : a.id = r.architecture_id
      [] t = "endpoint_pricing" -> \E e \in store.endpoints : e.id = r.endpoint_id
      [] OTHER -> TRUE

\* every row of store refers to a parent row of store
RefIntegrity(store) == \A t \in Tables : \A r \in store[t] : ParentIn(store, t, r)

\* C32: in every committed store every child row refers to a parent row of the
\* same store; the same holds of the open transaction, and every object added
\* to the session refers to a parent that was flushed before it (the Model is
\* created before its children); the commit of the insert path makes a new
\* Model durable together with its Pricing, Architecture and TopProvider, and
\* every child row it makes durable belongs to a Model of the same commit.
C32_ReferentialIntegrity ==
    /\ [](/\ RefIntegrity(db)
          /\ RefIntegrity(session.tx)
          /\ \A k \in DOMAIN session.pending :
                ParentIn(session.tx, session.pending[k][1], session.pending[k][2]))
    /\ [][pc = "insert_commit" =>
             /\ \A m \in db'.models \ db.models :
                   /\ RowsOf(db', "pricing", m.id) # {}
                   /\ RowsOf(db', "architecture", m.id) # {}
                   /\ RowsOf(db', "top_provider", m.id) # {}
             /\ \A t \in ModelChildTables : \A r \in db'[t] \ db[t] :
                   \E m \in db'.models \ db.models : m.id = r.model_id]_vars

\* a batch that added a Model was committed to a store that already held a
\* Model with an Endpoint and its EndpointPricing
C32_Witness ==
    /\ InsertReturned
    /\ result.value[1] > 0
    /\ Cardinality(db.models) > 1
    /\ db.endpoint_pricing # {}
    /\ db.modalities # {}

\* C33: the committed store does not change while bulk_insert_models loads
\* the existing keys and loops over the candidates; the only step of the
\* insert path that changes it is the commit after the last candidate; and
\* when the process is terminated inside the insert path before that commit,
\* the committed store holds no Model of a new candidate of the batch.
C33_SingleCommitAfterLoop ==
    /\ [][(pc \in {"insert", "insert_loop"}) => (db' = db)]_vars
    /\ [][(pc \in {"insert", "insert_loop", "insert_commit"} /\ db' # db) =>
             /\ pc = "insert_commit"
             /\ i = Len(new_models) + 1
             /\ pc' \notin {"insert", "insert_loop", "insert_commit"}]_vars
    /\ []((result.kind = "killed" /\ result.fn \in {"insert_loop", "insert_commit"}) =>
             \A k \in DOMAIN new_models :
                 Key(new_models[k]) \notin get_existing_models_from_db(db))

\* the process was terminated inside the loop after a candidate had been
\* inserted and flushed in the open transaction
C33_Witness ==
    /\ result.kind = "killed"
    /\ result.fn = "insert_loop"
    /\ inserted_count > 0
    /\ i <= Len(new_models)

\* the table an update pass writes
PassTable(fn) ==
    CASE fn = "update_llm_models" -> "models"
      [] fn = "update_model_pricing" -> "pricing"
      [] fn = "update_model_architecture" -> "architecture"
      [] fn = "update_architecture_modalities" -> "modalities"
      [] fn = "update_top_provider" -> "top_provider"
      [] fn = "update_endpoints" -> "endpoints"
      [] fn = "update_endpoint_pricing" -> "endpoint_pricing"
      [] fn = "update_supported_parameters" -> "supported_parameters"
      [] fn = "update_default_parameters" -> "default_parameters"

\* C34: the count an update pass returns is the number of rows of its table
\* that the pass changed or added; a pass that leaves the committed store as
\* it was returns 0.
C34_CountsOnlyChangedRows ==
    [][(pc \in UpdateFns /\ result'.kind = "return") =>
          result'.value[1] = Cardinality(db'[PassTable(pc)] \ db[PassTable(pc)])]_vars

\* the tables in the order in which main_async runs their update passes
TableOrder ==
    <<"models", "pricing", "architecture", "modalities", "top_provider", "endpoints",
      "endpoint_pricing", "supported_parameters", "default_parameters">>

\* the position of table t in TableOrder
OrderOf(t) == CHOOSE k \in DOMAIN TableOrder : TableOrder[k] = t

\* C35: a step of an update pass changes the committed store in the pass's
\* own table only, all at once; in a run a pass that returns is followed by
\* the pass of the next table of the fixed order (the insert path after the
\* last); a pass that fails leaves the committed store as it was when the
\* pass began, with the changes of the passes that returned before it.
C35_TableScopedTransactions ==
    /\ [][(pc \in UpdateFns) =>
             \A t \in Tables \ {PassTable(pc)} : db'[t] = db[t]]_vars
    /\ [][(pc \in UpdateFns /\ frame = "main_async" /\ result'.kind = "return") =>
             IF OrderOf(PassTable(pc)) = Len(TableOrder) THEN pc' = "insert"
             ELSE /\ pc' \in UpdateFns
                  /\ OrderOf(PassTable(pc')) = OrderOf(PassTable(pc)) + 1]_vars
    /\ [][(pc \in UpdateFns /\ result'.kind = "raise") => (db' = db /\ pc' = "end")]_vars

\* the pass of SupportedParameter failed in a run whose earlier passes had
\* filled the Model's display_name and reported changes
C35_Witness ==
    /\ result.kind = "raise"
    /\ result.fn = "update_supported_parameters"
    /\ frame = "main_async"
    /\ summary["update_llm_models"] > 0
    /\ summary["update_endpoints"] > 0
    /\ \E r \in db.models : r.display_name = "Gemini"
    /\ \A x \in db.supported_parameters : x.parameter_name # "top_k"

\* the tasks whose fetch and parse succeeded
Succeeded == {k \in DOMAIN gather.tasks :
                 gather.tasks[k].http = "ok" /\ HasCandidate(raw_models[k])}

\* the j-th smallest index of the set S
Nth(S, j) == CHOOSE k \in S : Cardinality({h \in S : h < k}) = j - 1

\* C36: while the tasks run, a step changes one task only and each task
\* completes once (no retry); whatever the order of completion, the list
\* fetch_all_endpoints_parallel returns holds exactly the candidates of the
\* models whose request and parse succeeded, in the order of the input list.
C36_GatherKeepsInputOrder ==
    /\ [][(pc = "gather" /\ pc' = "gather") =>
             Cardinality({h \in DOMAIN gather.tasks :
                             gather'.tasks[h] # gather.tasks[h]}) <= 1]_vars
    /\ [](pc = "gather" =>
             /\ Len(gather.done) = Cardinality(Range(gather.done))
             /\ Range(gather.done) = {k \in DOMAIN gather.tasks :
                                         gather.tasks[k].st = "done"})
    /\ [](pc = "record" =>
             /\ Len(models) = Cardinality(Succeeded)
             /\ \A j \in DOMAIN models :
                   models[j] = OpenRouterModelWithEndpoints(raw_models[Nth(Succeeded, j)]))

\* two tasks completed in the reverse of the input order, the request of
\* the first one failed, and the list returned holds the second model only
C36_Witness ==
    /\ pc = "record"
    /\ gather.done = <<2, 1>>
    /\ gather.tasks[1].http = "error"
    /\ gather.tasks[2].http = "ok"
    /\ Len(models) = 1
    /\ models[1].author = "openai"

\* a run is under way whose gate answered false and that was not forced
GateClosedRun ==
    /\ frame = "main_async"
    /\ pc # "idle"
    /\ ~should_sync_models
    /\ ~force_refresh

\* C37: in a run whose gate answered false and that was not forced, no step
\* changes the committed store (SyncMetadata included), the run never is at
\* the fetch or at the recording of the sync metadata, its candidate list
\* stays empty, and when it completes it has reported 0 inserted, 0 skipped
\* and 0 updated for every table.
C37_ClosedGateRunIsNoOp ==
    /\ [][GateClosedRun => (db' = db)]_vars
    /\ [](GateClosedRun =>
             /\ pc \notin {"fetch", "fetch_endpoints", "gather", "record"}
             /\ models = <<>>
             /\ \A f \in SummaryFields : summary[f] \in {None, 0}
             /\ result.kind = "done" => \A f \in SummaryFields : summary[f] = 0)

\* a run whose gate answered false completed on a store that holds a Model
\* and the metadata of the earlier sync
C37_Witness ==
    /\ GateClosedRun
    /\ result.kind = "done"
    /\ db.models # {}
    /\ ModelSyncRows(db) # {}

\* the tables in which the update path neither creates nor deletes rows
FixedRowTables ==
    {"models", "pricing", "architecture", "top_provider", "endpoints",
     "endpoint_pricing", "default_parameters"}

\* the rows of table t as (id, unique key): which rows exist and what they
\* belong to, whatever their other fields hold
RowIdentities(store, t) == {<<r.id, UKey(t, r)>> : r \in store[t]}

\* no candidate endpoint of the batch has an Endpoint row in store
NoEndpointMatched(store) ==
    \A k \in DOMAIN models : \A j \in DOMAIN models[k].providers :
        EndpointsOf(store, ModelIdOf(store, models[k]), models[k].providers[j]) = {}

\* C38: a step of an update pass keeps, in the tables Model, Pricing,
\* Architecture, TopProvider, Endpoint, EndpointPricing and DefaultParameters,
\* the same rows with the same keys and owners (so every Model keeps its set
\* of Endpoint rows); it removes no Modality and no SupportedParameter row and
\* leaves the sync metadata alone; when no candidate has its Model in the
\* store it changes nothing, and when no candidate endpoint has its Endpoint
\* row in the store it changes neither Endpoint nor EndpointPricing.
C38_UpdateCreatesNoRows ==
    [][(pc \in UpdateFns) =>
          /\ \A t \in FixedRowTables :
                /\ RowIdentities(db', t) = RowIdentities(db, t)
                /\ Cardinality(db'[t]) = Cardinality(db[t])
          /\ db.modalities \subseteq db'.modalities
          /\ db.supported_parameters \subseteq db'.supported_parameters
          /\ db'.sync_metadata = db.sync_metadata
          /\ (\A k \in DOMAIN models : ModelIdOf(db, models[k]) = None) => (db' = db)
          /\ NoEndpointMatched(db) =>
                /\ db'.endpoints = db.endpoints
                /\ db'.endpoint_pricing = db.endpoint_pricing]_vars

\* the Endpoint pass returned for a candidate of a stored Model whose
\* endpoint is not stored, and the Model still has the Endpoint it had
C38_Witness ==
    /\ result.fn = "update_endpoints"
    /\ result.kind = "return"
    /\ result.value = <<0>>
    /\ models[1].author = "google"
    /\ models[1].providers[1].tag = "openai"
    /\ Cardinality(db.endpoints) = 1
    /\ \A e \in db.endpoints : e.tag = "google"

\* C39: when the nine update passes have been applied to a store, applying
\* them again with the same candidates and the same ZDR lookup leaves every
\* table of the committed store as it is, and the second application ends as
\* the first one did.
C39_UpdatePathIdempotent ==
    [][(pc = "update_all_again") => (db' = db /\ result'.kind = result.kind)]_vars

\* the passes were applied twice with a candidate that changed the stored
\* Model, its Endpoint and its parameters the first time
C39_Witness ==
    /\ pc = "end"
    /\ result.fn = "update_all"
    /\ result.kind = "return"
    /\ models[1].name = "Foo"
    /\ \E r \in db.models : r.display_name = "Foo"
    /\ \E x \in db.supported_parameters : x.parameter_name = "top_k"
    /\ \E x \in db.modalities : x.modality_value = "image"
    /\ \E e \in db.endpoints : e.status = 1 /\ e.max_prompt_tokens = 8

\* C40: in every committed store every Model row has exactly one Pricing row,
\* exactly one Architecture row and exactly one TopProvider row.
C40_SubgraphComplete ==
    \A r \in db.models :
        /\ Cardinality(RowsOf(db, "pricing", r.id)) = 1
        /\ Cardinality(RowsOf(db, "architecture", r.id)) = 1
        /\ Cardinality(RowsOf(db, "top_provider", r.id)) = 1

\* a batch in which a candidate inserted before a failing one was rolled back
\* with it and a later candidate was inserted has been committed
C40_Witness ==
    /\ InsertReturned
    /\ Len(new_models) = 3
    /\ failed = {2}
    /\ result.value[1] = 2
    /\ Cardinality(db.models) = 1

====
